---- MODULE Spec2Model ----
(***************************************************************************)
(* A model of the oneseismic planner (core/src/plan.cpp), the geometry     *)
(* kernel it calls, the result-token keyring and the auth gates            *)
(* (api/internal/auth/auth.go) and the result broker                       *)
(* (api/api/endpoint.go).                                                  *)
(*                                                                         *)
(* Every subsystem has a specification of its own (SpecPartition,          *)
(* SpecGeometry, SpecCurtain, SpecKeyring, SpecCallerGate, SpecBroker):    *)
(* its Init draws the inputs from bounded sets and its actions are the     *)
(* steps of the code.                                                      *)
(* The variables of the other subsystems rest at their idle values.        *)
(***************************************************************************)
EXTENDS Integers, Sequences, FiniteSets, TLC

(***************************************************************************)
(* Bounds of the model                                                     *)
(***************************************************************************)
\* longest ids list of a Fetch handed to partition
MaxIds == 4
\* the ids of a Fetch are drawn from 1..MaxIdVal
MaxIdVal == 2
\* largest small task_size tried (IntMax and values below 1 are tried as well)
MaxTaskSize == 3

\* largest extent of the cube along an axis
MaxCube == 3
\* largest extent of a fragment along an axis
MaxFrag == 2

\* longest list of (x, y) pairs of a curtain query
MaxPairs == 3
\* most (x, y) positions of a cube a curtain query is tried on
MaxColumns == 4

\* the clock of the keyring runs from 0 to MaxTime (minutes)
MaxTime == 7

\* largest ntasks of a process header
MaxNtasks == 2
\* most entries workers append to the stream of a pid
MaxEntries == 3

(***************************************************************************)
(* Integer helpers: C++ int is 32 bits wide, '/' truncates towards zero.   *)
(***************************************************************************)
IntMax == 2147483647

\* a + b for ints a, b >= 0, wrapped to 32 bits (two's complement): past
\* IntMax the sum is a + b - 2^32, computed without leaving the 32-bit range.
Add32(a, b) ==
    IF a > IntMax - b
    THEN (a - IntMax - 1) + (b - IntMax - 1)
    ELSE a + b

\* a / b of C++ for b > 0: the quotient truncated towards zero.
TruncDiv(a, b) ==
    IF a >= 0 \/ a % b = 0 THEN a \div b ELSE (a \div b) + 1

Min(a, b) == IF a < b THEN a ELSE b

\* std::min(it + n, lst) on iterators (64-bit pointers, which n <= IntMax
\* cannot wrap), as positions: it + n when that is before lst, else lst.
MinAdvance(it, n, lst) == IF n < lst - it THEN it + n ELSE lst

\* ceil(a / b) for a >= 0, b >= 1, computed so that no large b overflows
CeilDiv(a, b) == IF a = 0 THEN 0 ELSE ((a - 1) \div b) + 1

RECURSIVE Concat(_)
Concat(ss) == IF ss = <<>> THEN <<>> ELSE Head(ss) \o Concat(Tail(ss))

\* all sequences over S of length 0..n
SeqsUpTo(S, n) == UNION { [1..k -> S] : k \in 0..n }

(***************************************************************************)
(* Variables                                                               *)
(***************************************************************************)
VARIABLES
    \* ---- schedule_maker::partition (plan.cpp)
    fetch0,      \* the Fetch as the builder returned it (never written)
    output,      \* the Output& argument: [ids, ctx], ids rewritten in place
    task_size,   \* the int argument
    ids,         \* the const copy of output.ids taken at line 122
    ntasks,      \* task_count(ids.size(), task_size)
    fst,         \* the iterator fst, as a 1-based position in ids
    i,           \* the loop counter
    xs,          \* the packed chunks pushed so far
    ppc,         \* "idle", "start", "loop", "returned", "thrown"
    perr,        \* the exception thrown, "none" when none
    \* ---- geometry kernel (gvt< 3 >)
    geom,        \* the geometry: [cube, frag], a CubeShape and a FragmentShape
    gpoint,      \* a CubePoint inside the cube
    gdim,        \* an axis, 0..2
    gres,        \* what the operations returned: [local, id, global, slice]
    gpc,         \* "idle", "ready", "converted", "sliced"
    \* ---- schedule_maker< curtain_task, curtain_fetch >::build (plan.cpp)
    ctask,       \* the curtain_task: [dim0s, dim1s], parallel lists
    cgeom,       \* gvt: geometry(manifest["dimensions"], task.shape)
    cids,        \* out.ids: a list of [id, coordinates]
    ci,          \* the loop counter i of the pass that runs
    cpc          \* "idle", "alloc", "insert", "built"

curtVars == <<ctask, cgeom, cids, ci, cpc>>

VARIABLES
    \* ---- Keyring and ResultAuth (auth.go)
    now,         \* time.Now(), in minutes
    tok,         \* the token the last Sign / SignWithTimeout returned
    issue,       \* which call returned tok, for which pid and when
    call         \* the call or request in progress or last served

keyVars == <<now, tok, issue, call>>

VARIABLES
    \* ---- ValidateJWT, the caller gate (auth.go)
    jwtlib,      \* what the linked jwt library answers where its versions differ
    creq         \* the request at the caller gate

gateVars == <<jwtlib, creq>>

VARIABLES
    \* ---- the result broker (endpoint.go), one pid and one request
    storage,     \* redis: [header, stream] of the pid
    req,         \* the request and its handler (the consumer)
    coll,        \* the goroutine collectResult (the producer)
    chans,       \* the channels tiles and failure
    sent         \* every frame put on the tiles channel so far, in order

brokerVars == <<storage, req, coll, chans, sent>>

VARIABLES
    \* ---- the slice builder (plan.cpp)
    slice_task,  \* the task: [dim, lineno, shape]
    manifest,    \* the manifest: [dimensions]
    slice_out,   \* the slice_fetch build returns
    bpc,         \* "idle", "start", "built", "thrown"
    berr         \* the exception thrown, "none" when none

sliceVars == <<slice_task, manifest, slice_out, bpc, berr>>

VARIABLES
    \* ---- several requests on one pid at a time (endpoint.go)
    chead,       \* the parsed process header of the pid
    cstream,     \* the stream of the pid in redis
    reqs         \* per request: its handler and its producer

concVars == <<chead, cstream, reqs>>

geomVars == <<geom, gpoint, gdim, gres, gpc>>

partVars == <<fetch0, output, task_size, ids, ntasks, fst, i, xs, ppc, perr>>

vars ==
    <<partVars, geomVars, curtVars, keyVars, gateVars, brokerVars, sliceVars,
      concVars>>

(***************************************************************************)
(* Planner: task_count and partition                                       *)
(***************************************************************************)

\* The value of x at plan.cpp:32, in 32-bit int arithmetic. jobs +
\* (task_size - 1) overflows when the sum passes IntMax; signed overflow is
\* undefined, the builds of the CI (gcc, clang, msvc on x86-64) wrap.
TaskCountX(jobs, tsize) ==
    TruncDiv(Add32(jobs, tsize - 1), tsize)

\* task_count throws std::runtime_error when x <= 0 (the assert is compiled
\* out of the Release build the CI makes, and aborts a debug build at x = 0).
TaskCountThrows(jobs, tsize) == TaskCountX(jobs, tsize) <= 0

\* Output::pack(): the message codec is not among the sources. A packed
\* message is the flat sequence <<ctx, number of ids, id_1, ..., id_n>>.
Pack(o) == <<o.ctx, Len(o.ids)>> \o o.ids

\* The ids field of a packed chunk, as a worker unpacks it.
UnpackIds(msg) == SubSeq(msg, 3, 2 + msg[2])

UnpackCtx(msg) == msg[1]

\* The inputs partition is tried on.
TaskSizes == (-1..MaxTaskSize) \cup {IntMax - 1, IntMax}

Contexts == {"slice", "curtain"}

Fetches == [ids : SeqsUpTo(1..MaxIdVal, MaxIds), ctx : Contexts]

PartIdle ==
    /\ fetch0 = [ids |-> <<>>, ctx |-> "slice"]
    /\ output = fetch0
    /\ task_size = 1
    /\ ids = <<>>
    /\ ntasks = 0
    /\ fst = 1
    /\ i = 0
    /\ xs = <<>>
    /\ ppc = "idle"
    /\ perr = "none"

PartInit ==
    /\ fetch0 \in Fetches
    /\ output = fetch0
    /\ task_size \in TaskSizes
    /\ ids = <<>>
    /\ ntasks = 0
    /\ fst = 1
    /\ i = 0
    /\ xs = <<>>
    /\ ppc = "start"
    /\ perr = "none"

\* partition that takes a task_size below 1 for one task of everything
PartitionBeginUnchecked ==
    /\ ppc = "start"
    /\ ids' = output.ids
    /\ IF task_size >= 1 /\ TaskCountThrows(Len(output.ids), task_size)
       THEN /\ ppc' = "thrown"
            /\ perr' = "runtime_error"
            /\ UNCHANGED <<ntasks, fst>>
       ELSE /\ ntasks' = IF task_size < 1 THEN 1
                         ELSE TaskCountX(Len(output.ids), task_size)
            /\ fst' = 1
            /\ ppc' = "loop"
            /\ perr' = "none"
    /\ UNCHANGED <<fetch0, output, task_size, i, xs>>

\* plan.cpp:117-128: the argument check, the copy of ids, task_count.
PartitionBegin ==
    /\ ppc = "start"
    /\ IF task_size < 1
       THEN /\ ppc' = "thrown"
            /\ perr' = "invalid_argument"
            /\ UNCHANGED <<ids, ntasks, fst>>
       ELSE /\ ids' = output.ids
            /\ IF TaskCountThrows(Len(output.ids), task_size)
               THEN /\ ppc' = "thrown"
                    /\ perr' = "runtime_error"
                    /\ UNCHANGED <<ntasks, fst>>
               ELSE /\ ntasks' = TaskCountX(Len(output.ids), task_size)
                    /\ fst' = 1
                    /\ ppc' = "loop"
                    /\ perr' = "none"
    /\ UNCHANGED <<fetch0, output, task_size, i, xs>>

\* an iteration that packs a fresh Output holding the ids of the chunk
PartitionStepFreshOutput ==
    /\ ppc = "loop"
    /\ i < ntasks
    /\ LET lst  == Len(ids) + 1
           last == MinAdvance(fst, task_size, lst)
           out  == [ids |-> SubSeq(ids, fst, last - 1), ctx |-> "slice"]
       IN  /\ output' = out
           /\ fst' = last
           /\ xs' = Append(xs, Pack(out))
    /\ i' = i + 1
    /\ UNCHANGED <<fetch0, task_size, ids, ntasks, ppc, perr>>

\* plan.cpp:131-136: one iteration of the loop.
PartitionStep ==
    /\ ppc = "loop"
    /\ i < ntasks
    /\ LET lst  == Len(ids) + 1
           last == MinAdvance(fst, task_size, lst)
           out  == [output EXCEPT !.ids = SubSeq(ids, fst, last - 1)]
       IN  /\ output' = out
           /\ fst' = last
           /\ xs' = Append(xs, Pack(out))
    /\ i' = i + 1
    /\ UNCHANGED <<fetch0, task_size, ids, ntasks, ppc, perr>>

\* plan.cpp:131,138: the loop condition fails, xs is returned.
PartitionReturn ==
    /\ ppc = "loop"
    /\ i >= ntasks
    /\ ppc' = "returned"
    /\ UNCHANGED <<fetch0, output, task_size, ids, ntasks, fst, i, xs, perr>>

PartNext ==
    \/ PartitionBegin
    \/ PartitionStep
    \/ PartitionReturn

(***************************************************************************)
(* Geometry kernel. Its code (geometry.hpp, geometry.cpp) is not among     *)
(* the sources: the operations follow section 4.1 of the specification,    *)
(* the inputs and the expected values of core/tests/geometry.cpp are       *)
(* taken from the tests.                                                   *)
(***************************************************************************)
Axes == 1..3

\* to_local: componentwise p[i] mod FragmentShape[i]
to_local(g, p) == [k \in Axes |-> p[k] % g.frag[k]]

\* frag_id that rounds the quotient up instead of down
frag_id_roundup(g, p) == [k \in Axes |-> CeilDiv(p[k], g.frag[k])]

\* frag_id: componentwise p[i] / FragmentShape[i]
frag_id(g, p) == [k \in Axes |-> p[k] \div g.frag[k]]

\* to_global: id[i] * FragmentShape[i] + local[i]
to_global(g, id, local) == [k \in Axes |-> id[k] * g.frag[k] + local[k]]

\* fragment_count(dim) = ceil(CubeShape[dim] / FragmentShape[dim]), dim 0..2
fragment_count(g, dim) == CeilDiv(g.cube[dim + 1], g.frag[dim + 1])

\* the values the component of axis d (0..2) runs through in slice(dim, pin),
\* ascending: the pinned axis holds pin / FragmentShape[dim] alone
SliceAxis(g, dim, pin, d) ==
    IF d = dim
    THEN << pin \div g.frag[dim + 1] >>
    ELSE [j \in 1..fragment_count(g, d) |-> j - 1]

\* slice with the first axis running fastest instead of the last
slice_first_axis_fastest(g, dim, pin) ==
    LET r0 == SliceAxis(g, dim, pin, 0)
        r1 == SliceAxis(g, dim, pin, 1)
        r2 == SliceAxis(g, dim, pin, 2)
    IN  Concat([c \in 1..Len(r2) |->
          Concat([b \in 1..Len(r1) |->
            [a \in 1..Len(r0) |-> <<r0[a], r1[b], r2[c]>>]])])

\* slice(dim, pin): the ids of the fragments the plane cuts, the last axis
\* running fastest
slice(g, dim, pin) ==
    LET r0 == SliceAxis(g, dim, pin, 0)
        r1 == SliceAxis(g, dim, pin, 1)
        r2 == SliceAxis(g, dim, pin, 2)
    IN  Concat([a \in 1..Len(r0) |->
          Concat([b \in 1..Len(r1) |->
            [c \in 1..Len(r2) |-> <<r0[a], r1[b], r2[c]>>]])])

Max3(F) == IF F[1] >= F[2] /\ F[1] >= F[3] THEN F[1]
           ELSE IF F[2] >= F[3] THEN F[2] ELSE F[3]

\* the product of the extents of shape F along the axes lo..hi
RECURSIVE Product(_, _, _)
Product(F, lo, hi) == IF lo > hi THEN 1 ELSE F[lo] * Product(F, lo + 1, hi)

\* the linearisation with the first axis fastest
to_offset_first_axis_fastest(p, S) == (p[3] * S[2] + p[2]) * S[1] + p[1]

\* to_offset(p) of a cube shape S: the position of the point p in the
\* row-major sequence of the samples of the cube
to_offset(p, S) == (p[1] * S[2] + p[2]) * S[3] + p[3]

\* a layout whose chunks follow each other without a gap
slice_stride_contiguous(F, dim) ==
    [initial_skip |-> Product(F, dim + 2, 3),
     chunk_size   |-> Product(F, dim + 2, 3),
     superstride  |-> Product(F, dim + 2, 3),
     substride    |-> Product(F, dim + 2, 3),
     iterations   |-> Product(F, 1, dim)]

\* slice_stride(dim) of a fragment shape F, dim 0..2: the tiles along dim
\* are initial_skip apart; a tile is iterations chunks of chunk_size
\* samples, superstride apart
slice_stride(F, dim) ==
    [initial_skip |-> Product(F, dim + 2, 3),
     chunk_size   |-> Product(F, dim + 2, 3),
     superstride  |-> Product(F, dim + 1, 3),
     substride    |-> Product(F, dim + 2, 3),
     iterations   |-> Product(F, 1, dim)]

\* a fragment of shape F, row-major; the sample at a position is the
\* triple of its coordinates, as in exfragment of the tests
FragmentSamples(F) ==
    [o \in 1..Product(F, 1, 3) |->
        << (o - 1) \div (F[2] * F[3]),
           ((o - 1) \div F[3]) % F[2],
           (o - 1) % F[3] >>]

\* geometry.cpp (tests) 317-333: the samples the layout selects from the
\* fragment for the tile at pin
ExtractTile(fragment, stride, pin) ==
    [n \in 1..(stride.iterations * stride.chunk_size) |->
        LET it  == (n - 1) \div stride.chunk_size
            pos == pin * stride.initial_skip + it * stride.superstride
        IN  fragment[pos + ((n - 1) % stride.chunk_size) + 1]]

\* lexicographic order of 3-tuples
LexLess(a, b) ==
    \/ a[1] < b[1]
    \/ a[1] = b[1] /\ a[2] < b[2]
    \/ a[1] = b[1] /\ a[2] = b[2] /\ a[3] < b[3]

\* The geometries and points of the tests of core/tests/geometry.cpp.
TestGeometries ==
    { [cube |-> <<2000, 2000, 1000>>, frag |-> <<20, 20, 10>>],
      [cube |-> <<220, 200, 100>>,    frag |-> <<22, 20, 10>>],
      [cube |-> <<220, 200, 1000>>,   frag |-> <<33, 20, 11>>],
      [cube |-> <<220, 200, 1000>>,   frag |-> <<22, 20, 10>>],
      [cube |-> <<9, 15, 23>>,        frag |-> <<3, 9, 5>>],
      [cube |-> <<3, 5, 7>>,          frag |-> <<3, 5, 7>>] }

TestPoints ==
    { <<100, 200, 110>>, <<55, 67, 88>>, <<98, 59, 54>>, <<65, 79, 109>>,
      <<0, 11, 17>>, <<7, 3, 11>>, <<1, 1, 1>> }

\* geometry.cpp (tests) 12-23, 36-46, 58-75: the local coordinates expected
TestLocals ==
    { [cube |-> <<2000, 2000, 1000>>, frag |-> <<20, 20, 10>>,
       p |-> <<100, 200, 110>>, local |-> <<0, 0, 0>>],
      [cube |-> <<220, 200, 100>>, frag |-> <<22, 20, 10>>,
       p |-> <<55, 67, 88>>, local |-> <<11, 7, 8>>],
      [cube |-> <<220, 200, 1000>>, frag |-> <<33, 20, 11>>,
       p |-> <<98, 59, 54>>, local |-> <<32, 19, 10>>],
      [cube |-> <<220, 200, 1000>>, frag |-> <<22, 20, 10>>,
       p |-> <<65, 79, 109>>, local |-> <<21, 19, 9>>] }

\* geometry.cpp (tests) 92-175: the cube of the slice tests, the pins 0, 11
\* and 17 along the axes 0, 1 and 2, and the ids expected
TestSliceGeometry == [cube |-> <<9, 15, 23>>, frag |-> <<3, 9, 5>>]

TestSlicePins == <<0, 11, 17>>

TestSliceExpected ==
    << << <<0, 0, 0>>, <<0, 0, 1>>, <<0, 0, 2>>, <<0, 0, 3>>, <<0, 0, 4>>,
          <<0, 1, 0>>, <<0, 1, 1>>, <<0, 1, 2>>, <<0, 1, 3>>, <<0, 1, 4>> >>,
       << <<0, 1, 0>>, <<0, 1, 1>>, <<0, 1, 2>>, <<0, 1, 3>>, <<0, 1, 4>>,
          <<1, 1, 0>>, <<1, 1, 1>>, <<1, 1, 2>>, <<1, 1, 3>>, <<1, 1, 4>>,
          <<2, 1, 0>>, <<2, 1, 1>>, <<2, 1, 2>>, <<2, 1, 3>>, <<2, 1, 4>> >>,
       << <<0, 0, 3>>, <<0, 1, 3>>, <<1, 0, 3>>, <<1, 1, 3>>,
          <<2, 0, 3>>, <<2, 1, 3>> >> >>

SmallGeometries ==
    [cube : [Axes -> 1..MaxCube], frag : [Axes -> 1..MaxFrag]]

InRange(g, p) == \A k \in Axes : p[k] >= 0 /\ p[k] < g.cube[k]

PointsOf(g) ==
    IF g \in TestGeometries
    THEN {p \in TestPoints : InRange(g, p)}
    ELSE {p \in [Axes -> 0..(MaxCube - 1)] : InRange(g, p)}

NoResult ==
    [local |-> <<>>, id |-> <<>>, global |-> <<>>, slice |-> <<>>,
     tile |-> <<>>, offset |-> -1]

GeomIdle ==
    /\ geom = [cube |-> <<1, 1, 1>>, frag |-> <<1, 1, 1>>]
    /\ gpoint = <<0, 0, 0>>
    /\ gdim = 0
    /\ gres = NoResult
    /\ gpc = "idle"

GeomInit ==
    /\ geom \in SmallGeometries \cup TestGeometries
    /\ gpoint \in PointsOf(geom)
    /\ gdim \in 0..2
    /\ gres = NoResult
    /\ gpc = "ready"

\* geometry.cpp (tests) 19-29: to_local, frag_id, then to_global of the two
GeomConvert ==
    /\ gpc = "ready"
    /\ LET local == to_local(geom, gpoint)
           root  == frag_id(geom, gpoint)
       IN  gres' = [gres EXCEPT !.local = local, !.id = root,
                                !.global = to_global(geom, root, local)]
    /\ gpc' = "converted"
    /\ UNCHANGED <<geom, gpoint, gdim>>

\* geometry.cpp (tests) 102, 129, 163: slice(dim, pin), the pin being the
\* component of the point along dim
GeomSlice ==
    /\ gpc = "ready"
    /\ gres' = [gres EXCEPT !.slice = slice(geom, gdim, gpoint[gdim + 1])]
    /\ gpc' = "sliced"
    /\ UNCHANGED <<geom, gpoint, gdim>>

\* geometry.cpp (tests) 349-351, 369-371, 389-391: slice_stride(dim) of
\* the fragment shape, then the copy; the pin is the local index of the
\* point along dim
GeomExtract ==
    /\ gpc = "ready"
    /\ gres' = [gres EXCEPT
                  !.tile = ExtractTile(FragmentSamples(geom.frag),
                                       slice_stride(geom.frag, gdim),
                                       to_local(geom, gpoint)[gdim + 1])]
    /\ gpc' = "extracted"
    /\ UNCHANGED <<geom, gpoint, gdim>>

\* geometry.cpp (tests) 178-181: to_offset of a point of the cube
GeomOffset ==
    /\ gpc = "ready"
    /\ gres' = [gres EXCEPT !.offset = to_offset(gpoint, geom.cube)]
    /\ gpc' = "linearised"
    /\ UNCHANGED <<geom, gpoint, gdim>>

GeomNext ==
    \/ GeomConvert
    \/ GeomSlice
    \/ GeomExtract
    \/ GeomOffset

(***************************************************************************)
(* Planner: the curtain builder                                            *)
(***************************************************************************)

\* plan.cpp:202-209: less(lhs, rhs), lhs an entry of ids and rhs an id
less(lhs, rhs) == LexLess(lhs.id, rhs)

\* plan.cpp:210-212: equal(lhs, rhs) on two ids of three components
equal(lhs, rhs) == \A k \in Axes : lhs[k] = rhs[k]

\* std::lower_bound(first, first + len, value, less) on the list v, as the
\* standard library computes it: a binary search that halves len
RECURSIVE lower_bound(_, _, _, _)
lower_bound(v, first, len, value) ==
    IF len <= 0
    THEN first
    ELSE LET half   == len \div 2
             middle == first + half
         IN  IF less(v[middle], value)
             THEN lower_bound(v, middle + 1, len - half - 1, value)
             ELSE lower_bound(v, first, half, value)

\* plan.cpp:249-254, 272-277: the fragment id of the top of the column of
\* the i-th (x, y) pair
ColumnId(g, task, k) == frag_id(g, <<task.dim0s[k], task.dim1s[k], 0>>)

\* the new column pushed at the end of ids instead of inserted at itr
InsertColumnAtEnd(v, itr, zfrags, fid) ==
    v \o [z \in 1..zfrags |-> [id |-> <<fid[1], fid[2], z - 1>>,
                                coordinates |-> <<>>]]

\* the copies of top inserted at itr and their z left as it is
InsertColumnOfTops(v, itr, zfrags, fid) ==
    SubSeq(v, 1, itr - 1)
    \o [z \in 1..zfrags |-> [id |-> fid, coordinates |-> <<>>]]
    \o SubSeq(v, itr, Len(v))

\* plan.cpp:261-263: ids.insert(itr, zfrags, top), then the z of the id of
\* the copies set to 0..zfrags-1
InsertColumn(v, itr, zfrags, fid) ==
    SubSeq(v, 1, itr - 1)
    \o [z \in 1..zfrags |-> [id |-> <<fid[1], fid[2], z - 1>>,
                              coordinates |-> <<>>]]
    \o SubSeq(v, itr, Len(v))

\* the local pair pushed on the entry at itr alone
AppendCoordinatesToTop(v, itr, zfrags, lid) ==
    [k \in 1..Len(v) |->
        IF k = itr
        THEN [v[k] EXCEPT !.coordinates = Append(@, <<lid[1], lid[2]>>)]
        ELSE v[k]]

\* plan.cpp:281-283: push_back of the local pair on the zfrags entries from itr
AppendCoordinates(v, itr, zfrags, lid) ==
    [k \in 1..Len(v) |->
        IF k >= itr /\ k < itr + zfrags
        THEN [v[k] EXCEPT !.coordinates = Append(@, <<lid[1], lid[2]>>)]
        ELSE v[k]]

\* The geometries a curtain is built on: those with few (x, y) positions.
CurtainGeometries ==
    {g \in SmallGeometries : g.cube[1] * g.cube[2] <= MaxColumns}

\* The in-range (x, y) lists: parallel dim0s and dim1s of the same length.
CurtainTasks(g) ==
    UNION { [dim0s : [1..n -> 0..(g.cube[1] - 1)],
             dim1s : [1..n -> 0..(g.cube[2] - 1)]] : n \in 0..MaxPairs }

CurtIdle ==
    /\ ctask = [dim0s |-> <<>>, dim1s |-> <<>>]
    /\ cgeom = [cube |-> <<1, 1, 1>>, frag |-> <<1, 1, 1>>]
    /\ cids = <<>>
    /\ ci = 0
    /\ cpc = "idle"

\* plan.cpp:214-222: out.ids is empty, the first pass starts at i = 0
CurtInit ==
    /\ cgeom \in CurtainGeometries
    /\ ctask \in CurtainTasks(cgeom)
    /\ cids = <<>>
    /\ ci = 0
    /\ cpc = "alloc"

\* plan.cpp:248-265: one iteration of the bucket allocation pass
CurtainAllocate ==
    /\ cpc = "alloc"
    /\ ci < Len(ctask.dim0s)
    /\ LET zfrags == fragment_count(cgeom, 2)
           fid    == ColumnId(cgeom, ctask, ci + 1)
           itr    == lower_bound(cids, 1, Len(cids), fid)
       IN  IF itr = Len(cids) + 1 \/ ~equal(cids[itr].id, fid)
           THEN cids' = InsertColumn(cids, itr, zfrags, fid)
           ELSE cids' = cids
    /\ ci' = ci + 1
    /\ UNCHANGED <<ctask, cgeom, cpc>>

\* plan.cpp:248, 271: the first pass is over, the second starts at i = 0
CurtainAllocated ==
    /\ cpc = "alloc"
    /\ ci >= Len(ctask.dim0s)
    /\ ci' = 0
    /\ cpc' = "insert"
    /\ UNCHANGED <<ctask, cgeom, cids>>

\* plan.cpp:271-284: one iteration of the coordinate insertion pass
CurtainInsert ==
    /\ cpc = "insert"
    /\ ci < Len(ctask.dim0s)
    /\ LET zfrags == fragment_count(cgeom, 2)
           cp     == <<ctask.dim0s[ci + 1], ctask.dim1s[ci + 1], 0>>
           fid    == frag_id(cgeom, cp)
           lid    == to_local(cgeom, cp)
           itr    == lower_bound(cids, 1, Len(cids), fid)
       IN  cids' = AppendCoordinates(cids, itr, zfrags, lid)
    /\ ci' = ci + 1
    /\ UNCHANGED <<ctask, cgeom, cpc>>

\* plan.cpp:271, 286: the second pass is over, out is returned
CurtainReturn ==
    /\ cpc = "insert"
    /\ ci >= Len(ctask.dim0s)
    /\ cpc' = "built"
    /\ UNCHANGED <<ctask, cgeom, cids, ci>>

CurtNext ==
    \/ CurtainAllocate
    \/ CurtainAllocated
    \/ CurtainInsert
    \/ CurtainReturn

(***************************************************************************)
(* Keyring and the result gate (auth.go). The jwt library is an external   *)
(* collaborator: a token is the record of its header and claims with the   *)
(* MAC of them under the signing key.                                      *)
(***************************************************************************)
Pids == {"p", "q"}

\* Keyring.key, the pre-shared key, and a key an outsider signs with
RingKey == "psk"
OtherKey == "other"

\* auth.go:138: 5 * time.Minute
TokenLifetime == 5

NoToken == [kind |-> "none"]

\* jwt.NewWithClaims(method, {pid, exp}).SignedString(key)
SignedString(key, alg, pid, exp) ==
    [kind |-> "jwt", alg |-> alg, pid |-> pid, exp |-> exp,
     mac |-> <<key, alg, pid, exp>>]

\* auth.go:148-158
SignWithTimeout(pid, exp) == SignedString(RingKey, "HS256", pid, exp)

\* Sign that forgets to add the timeout
SignNoTimeout(pid, t) == SignWithTimeout(pid, t)

\* auth.go:137-140
Sign(pid, t) == SignWithTimeout(pid, t + TokenLifetime)

\* jwt.Parse(tokenstr, keyfunc) of auth.go:173-180, keyfunc returning key:
\* the string must be a JWT, the claims must be valid at time t (exp, when
\* present, not before t) and the MAC must be the one of the header and
\* claims under key with an HMAC method. "ok" stands for err == nil and
\* token.Valid.
JwtParse(t, key, at) ==
    IF t.kind # "jwt" THEN "malformed"
    ELSE IF t.alg # "HS256" THEN "unverifiable"
    ELSE IF at > t.exp THEN "expired"
    ELSE IF t.mac # <<key, t.alg, t.pid, t.exp>> THEN "signature_invalid"
    ELSE "ok"

\* Validate that does not compare the pid of the token with the request's
ValidateAnyPid(tokenstr, pid, at) == JwtParse(tokenstr, RingKey, at)

\* auth.go:164-218: Keyring.Validate; "ok" stands for nil
Validate(tokenstr, pid, at) ==
    LET err == JwtParse(tokenstr, RingKey, at)
    IN  IF err # "ok" THEN err
        ELSE IF tokenstr.pid = pid THEN "ok"
        ELSE "invalid_pid"

\* The Authorization headers tried: a header is the list of its words, the
\* empty list the missing header. The tokens are the one the keyring
\* signed last, that token with its pid rewritten, tokens an outsider signs
\* and a string that is no JWT.
TokensTried ==
    {tok, [kind |-> "garbage"]}
    \cup {SignedString(OtherKey, "HS256", pid, MaxTime + TokenLifetime) : pid \in Pids}
    \cup (IF tok.kind = "jwt"
          THEN {[tok EXCEPT !.pid = pid] : pid \in Pids}
               \cup {[tok EXCEPT !.alg = "none"]}
          ELSE {})

HeadersTried ==
    {<<>>, <<"Bearer">>}
    \cup {<<"Basic", t>> : t \in TokensTried \ {NoToken}}
    \cup {<<"Bearer", t>> : t \in TokensTried \ {NoToken}}

\* auth.go:253-254: fmt.Sscanf(authorization, "Bearer %s", &token) reads
\* the word after a leading "Bearer"; err is nil when there is one
SscanfBearer(authorization) ==
    IF Len(authorization) >= 2 /\ authorization[1] = "Bearer"
    THEN [err |-> "nil", token |-> authorization[2]]
    ELSE [err |-> "input does not match format", token |-> NoToken]

\* ResultAuth that answers 403 without aborting the request
ResultAuthNoAbort(authorization, pid, at) ==
    IF authorization = <<>> THEN [status |-> 401, aborted |-> TRUE]
    ELSE LET scan == SscanfBearer(authorization)
         IN  IF scan.err # "nil" THEN [status |-> 401, aborted |-> TRUE]
             ELSE IF Validate(scan.token, pid, at) # "ok"
                  THEN [status |-> 403, aborted |-> FALSE]
                  ELSE [status |-> 0, aborted |-> FALSE]

\* auth.go:234-277: the middleware; status 0 stands for no status written
ResultAuth(authorization, pid, at) ==
    IF authorization = <<>> THEN [status |-> 401, aborted |-> TRUE]
    ELSE LET scan == SscanfBearer(authorization)
         IN  IF scan.err # "nil" THEN [status |-> 401, aborted |-> TRUE]
             ELSE IF Validate(scan.token, pid, at) # "ok"
                  THEN [status |-> 403, aborted |-> TRUE]
                  ELSE [status |-> 0, aborted |-> FALSE]

NoCall == [op |-> "none"]

NoIssue == [by |-> "none"]

KeyIdle ==
    /\ now = 0
    /\ tok = NoToken
    /\ issue = NoIssue
    /\ call = NoCall

KeyInit ==
    /\ now = 0
    /\ tok = NoToken
    /\ issue = NoIssue
    /\ call = [op |-> "start"]

\* time passes
Tick ==
    /\ call.op # "none"
    /\ now < MaxTime
    /\ now' = now + 1
    /\ UNCHANGED <<tok, issue, call>>

\* auth.go:137-140: Keyring.Sign(pid)
KeyringSign ==
    /\ call.op # "none"
    /\ \E pid \in Pids :
          /\ tok' = Sign(pid, now)
          /\ issue' = [by |-> "Sign", pid |-> pid, at |-> now]
          /\ call' = [op |-> "Sign", pid |-> pid, at |-> now]
    /\ UNCHANGED now

\* auth.go:148-158: Keyring.SignWithTimeout(pid, exp), exp also in the past
KeyringSignWithTimeout ==
    /\ call.op # "none"
    /\ \E pid \in Pids, exp \in 0..MaxTime :
          /\ tok' = SignWithTimeout(pid, exp)
          /\ issue' = [by |-> "SignWithTimeout", pid |-> pid, at |-> now]
          /\ call' = [op |-> "SignWithTimeout", pid |-> pid, at |-> now]
    /\ UNCHANGED now

\* auth.go:164-218: Keyring.Validate(tokenstr, pid)
KeyringValidate ==
    /\ call.op # "none"
    /\ \E t \in TokensTried \ {NoToken}, pid \in Pids :
          call' = [op |-> "Validate", token |-> t, pid |-> pid, at |-> now,
                   err |-> Validate(t, pid, now)]
    /\ UNCHANGED <<now, tok, issue>>

\* A request to /result/:pid...: gin runs the middleware ResultAuth
\* (auth.go:234-277) first.
ResultRequest ==
    /\ call.op # "none"
    /\ \E authorization \in HeadersTried, pid \in Pids :
          LET r == ResultAuth(authorization, pid, now)
          IN  call' = [op |-> "Result", authorization |-> authorization,
                       pid |-> pid, at |-> now, status |-> r.status,
                       aborted |-> r.aborted, handled |-> FALSE,
                       busReads |-> 0]
    /\ UNCHANGED <<now, tok, issue>>

\* gin calls the next handler of the chain, the endpoint (endpoint.go:153,
\* 213, 278), unless the request was aborted; the endpoint starts with a
\* read of the stream bus (Storage.Get of the header key) and the answer is
\* written with the status set last (200 when none was set).
ResultEndpoint ==
    /\ call.op = "Result"
    /\ ~call.aborted
    /\ ~call.handled
    /\ call' = [call EXCEPT !.handled = TRUE, !.busReads = @ + 1,
                            !.status = IF @ = 0 THEN 200 ELSE @]
    /\ UNCHANGED <<now, tok, issue>>

KeyNext ==
    \/ Tick
    \/ KeyringSign
    \/ KeyringSignWithTimeout
    \/ KeyringValidate
    \/ ResultRequest
    \/ ResultEndpoint

(***************************************************************************)
(* The caller gate (auth.go:16-89). The JWT middleware and the jwt         *)
(* library are external collaborators, modelled by what they document.     *)
(***************************************************************************)
\* the issuer and audience ValidateJWT is configured with, the id of a key
\* of the key set and the id of a key that is not in it
Issuer == "issuer"
Audience == "audience"
KnownKid == "k1"
KeySet == {KnownKid}

\* The bearer tokens tried: a JWT is its header (alg, kid), its claims
\* (iss, aud, "absent" for a claim the token lacks), the key that signed it
\* and whether its exp has passed.
CallerTokens ==
    [kind : {"jwt"},
     alg : {"RS256", "HS256"},
     kid : {KnownKid, "kx", "absent", "nonstring"},
     iss : {Issuer, "evil", "absent"},
     aud : {Audience, "other", "absent"},
     signedWith : {KnownKid, "kx"},
     expired : BOOLEAN]
    \cup {[kind |-> "garbage"]}

CallerHeaders ==
    {<<>>} \cup {<<"Basic", t>> : t \in {[kind |-> "garbage"]}}
           \cup {<<"Bearer", t>> : t \in CallerTokens}

\* MapClaims.VerifyAudience(audience, false): true when the claim matches;
\* for a token without the claim the versions of the library differ
\* (lib = "lenient": true, as documented; lib = "strict": false)
VerifyAudience(token, audience, lib) ==
    IF token.aud = "absent" THEN lib = "lenient" ELSE token.aud = audience

\* MapClaims.VerifyIssuer(issuer, false): true when the claim matches or
\* is unset
VerifyIssuer(token, issuer) ==
    IF token.iss = "absent" THEN TRUE ELSE token.iss = issuer

\* auth.go:16-31; "nil" or the error
verifyIssuerAudience(issuer, audience, token, lib) ==
    IF ~VerifyAudience(token, audience, lib) THEN "invalid_audience"
    ELSE IF ~VerifyIssuer(token, issuer) THEN "invalid_issuer"
    ELSE "nil"

\* auth.go:33-46; the type assertion keyID.(string) panics on a kid that
\* is no string
validateKey(keys, token) ==
    IF token.kid = "absent" THEN "kid_not_in_header"
    ELSE IF token.kid = "nonstring" THEN "panic"
    ELSE IF token.kid \notin keys THEN "key_not_recognized"
    ELSE "nil"

\* auth.go:62-89: the extractor of the middleware wants 'Bearer <token>',
\* jwt.Parse calls the ValidationKeyGetter (auth.go:69-80), checks the
\* claims and the signature with the key returned, and the middleware
\* wants the alg to be RS256. The outcome is "pass", "panic", or 401 by
\* AbortWithStatus.
ValidateJWT(authorization, lib) ==
    IF ~(Len(authorization) = 2 /\ authorization[1] = "Bearer") THEN "401"
    ELSE LET token == authorization[2]
         IN  IF token.kind # "jwt" THEN "401"
             ELSE IF verifyIssuerAudience(Issuer, Audience, token, lib) # "nil"
                  THEN "401"
             ELSE IF validateKey(KeySet, token) = "panic" THEN "panic"
             ELSE IF validateKey(KeySet, token) # "nil" THEN "401"
             ELSE IF token.expired THEN "401"
             ELSE IF token.signedWith # token.kid THEN "401"
             ELSE IF token.alg # "RS256" THEN "401"
             ELSE "pass"

GateIdle ==
    /\ jwtlib = "lenient"
    /\ creq = NoCall

GateInit ==
    /\ jwtlib \in {"lenient", "strict"}
    /\ creq = [op |-> "start"]

\* a request arrives at a route behind ValidateJWT (auth.go:83-88)
CallerRequest ==
    /\ creq.op # "none"
    /\ \E authorization \in CallerHeaders :
          creq' = [op |-> "Caller", authorization |-> authorization,
                   outcome |-> ValidateJWT(authorization, jwtlib),
                   handled |-> FALSE]
    /\ UNCHANGED jwtlib

\* gin calls the next handler of the chain unless the request was aborted
\* (or the goroutine panicked)
CallerEndpoint ==
    /\ creq.op = "Caller"
    /\ creq.outcome = "pass"
    /\ ~creq.handled
    /\ creq' = [creq EXCEPT !.handled = TRUE]
    /\ UNCHANGED jwtlib

GateNext ==
    \/ CallerRequest
    \/ CallerEndpoint

(***************************************************************************)
(* The result broker (api/api/endpoint.go): Result.Stream and Result.Get,  *)
(* the goroutine collectResult they start, the two channels between them   *)
(* and the storage (redis) all of them read.  One pid, one request.        *)
(***************************************************************************)
\* make(chan []byte, 1000) of Get
GetChannelCapacity == 1000

\* ---- the message codec (api/internal/message), by its contract
\* ProcessHeader values the scheduler may have written, the ones with
\* Ntasks <= 0 included
ProcessHeaders ==
    [Ntasks : -1..MaxNtasks,
     Shape  : {<<1, 1, 1>>, <<2, 3, 1>>},
     Index  : {<< <<0>>, <<0>>, <<0, 4>> >>}]

\* the bytes of a header, a stand-in for msgpack: the count, the shape,
\* then every list of the index behind its length
PackHeader(n, shape, index) ==
    <<n>> \o shape \o <<Len(index)>>
          \o Concat([k \in 1..Len(index) |-> <<Len(index[k])>> \o index[k]])

\* (&message.ProcessHeader{}).Pack()
PackProcessHeader(ph) == PackHeader(ph.Ntasks, ph.Shape, ph.Index)

\* (&message.ResultHeader{}).Pack()
PackResultHeader(rh) == PackHeader(rh.Bundles, rh.Shape, rh.Index)

\* documents no ProcessHeader packs to
MalformedDocs == {<<>>, <<2, 1, 1>>}

\* what the key <pid>/header.json may hold
HeaderDocs == {PackProcessHeader(ph) : ph \in ProcessHeaders} \cup MalformedDocs

\* (&message.ProcessHeader{}).Unpack(doc): the header that packs to doc,
\* err when there is none
UnpackProcessHeader(doc) ==
    IF \E ph \in ProcessHeaders : PackProcessHeader(ph) = doc
    THEN [err |-> FALSE,
          ph  |-> CHOOSE ph \in ProcessHeaders : PackProcessHeader(ph) = doc]
    ELSE [err |-> TRUE]

\* ---- endpoint.go
\* parseProcessHeader without the check of lines 75-78
parseProcessHeaderAnyCount(doc) ==
    LET u == UnpackProcessHeader(doc)
    IN  IF u.err THEN [err |-> TRUE] ELSE [err |-> FALSE, ph |-> u.ph]

parseProcessHeader(doc) ==
    LET u == UnpackProcessHeader(doc)
    IN  IF u.err THEN [err |-> TRUE]
        ELSE IF u.ph.Ntasks <= 0 THEN [err |-> TRUE]
        ELSE [err |-> FALSE, ph |-> u.ph]

resultFromProcessHeader(head) ==
    [Bundles |-> head.Ntasks,
     Shape   |-> head.Shape,
     Index   |-> head.Index]

\* fmt.Sprintf("%010d", n) for 0 <= n < 10^9: ten decimal digits as
\* characters (48 is '0')
RECURSIVE Pow10(_)
Pow10(k) == IF k = 0 THEN 1 ELSE 10 * Pow10(k - 1)

Sprintf010d(n) ==
    [k \in 1..10 |-> 48 + ((n \div Pow10(10 - k)) % 10)]

\* a frame whose prefix is the length of the payload alone
StreamFramePayloadLength(frame) == Sprintf010d(Len(frame)) \o frame

\* what Stream writes for one frame taken from the channel
StreamFrame(frame) == Sprintf010d(10 + Len(frame)) \o frame

\* ---- the stream of the pid: what workers append
\* a tile, as the bytes of its payload
TilePayloads == {<<9>>, <<8, 8>>}

\* an entry holds one field: a tile (a string, or a value of another
\* type) or the key "error" with the text of the error
StreamEntries ==
    [key : {"tile"}, isString : {TRUE}, val : TilePayloads]
    \cup [key : {"tile"}, isString : {FALSE}, val : {<<7>>}]
    \cup [key : {"error"}, isString : {TRUE}, val : {<<5>>}]

\* the key <pid>/header.json before the scheduler has written it
NoHeader == [state |-> "absent", doc |-> <<>>]

\* head before the header is parsed
NilHead == [Ntasks |-> 0, Shape |-> <<>>, Index |-> <<>>]

\* wire is the status line the client has received, 0 before gin has
\* written it; body the writes to the client; result and count the
\* locals of Get; answer and progress the fields "status" and "progress"
\* of the JSON Status answers with; busError whether a read of the
\* storage returned an error other than redis.Nil; xlen what XLen
\* returned to Get; late whether r.Timeout has passed since the request
\* began; toldFinished whether an earlier Status request of this client
\* was answered "finished"
NoRequest ==
    [kind |-> "none", pc |-> "idle", head |-> NilHead, wire |-> 0,
     body |-> <<>>, result |-> <<>>, count |-> 0,
     answer |-> "none", progress |-> <<>>, busError |-> FALSE,
     xlen |-> 0, late |-> FALSE, toldFinished |-> FALSE,
     cancelled |-> FALSE]

\* out is the value of the channel send the goroutine stands at, reply
\* and at the messages of the last XRead and the one being handled
NoCollector ==
    [pc |-> "none", head |-> NilHead, out |-> <<>>, err |-> "none",
     streamCursor |-> 0, count |-> 0, reply |-> <<>>, at |-> 0]

\* tiles is the buffer of the tiles channel; failure has no buffer
NoChannels == [tiles |-> <<>>, cap |-> 0, closed |-> FALSE]

BrokerIdle ==
    /\ storage = [header |-> NoHeader, stream |-> <<>>]
    /\ req = NoRequest
    /\ coll = NoCollector
    /\ chans = NoChannels
    /\ sent = <<>>

BrokerInit == BrokerIdle

\* ---- the scheduler and the workers, on the other side of the storage
\* /query writes the process header of the pid, once
SchedulerWriteHeader ==
    /\ storage.header.state = "absent"
    /\ \E doc \in HeaderDocs :
         storage' = [storage EXCEPT
                        !.header = [state |-> "present", doc |-> doc]]
    /\ UNCHANGED <<req, coll, chans, sent>>

\* the key of the header expires
HeaderExpire ==
    /\ storage.header.state = "present"
    /\ storage' = [storage EXCEPT
                    !.header = [state |-> "expired", doc |-> <<>>]]
    /\ UNCHANGED <<req, coll, chans, sent>>

\* a worker appends an entry to the stream of the pid
WorkerAppend ==
    /\ Len(storage.stream) < MaxEntries
    /\ \E e \in StreamEntries :
         storage' = [storage EXCEPT !.stream = Append(@, e)]
    /\ UNCHANGED <<req, coll, chans, sent>>

\* ---- Result.Stream and Result.Get up to the select loop
\* go collectResult(ctx, r.Storage, pid, head, tiles, failure)
Spawn(head) == [NoCollector EXCEPT !.pc = "pack", !.head = head]

\* lines 154-171 of Stream, 214-227 of Get: read and parse the header;
\* Stream makes its channels and starts the producer at once
Request(kind) ==
    /\ req.pc = "idle"
    /\ LET h == storage.header
           p == parseProcessHeader(h.doc)
       IN  IF h.state # "present"
           THEN /\ req' = [req EXCEPT !.kind = kind, !.pc = "done", !.wire = 404]
                /\ UNCHANGED <<coll, chans>>
           ELSE IF p.err
           THEN /\ req' = [req EXCEPT !.kind = kind, !.pc = "done", !.wire = 500]
                /\ UNCHANGED <<coll, chans>>
           ELSE IF kind = "stream"
           THEN /\ req' = [req EXCEPT !.kind = kind, !.pc = "select", !.head = p.ph]
                /\ chans' = [tiles |-> <<>>, cap |-> 0, closed |-> FALSE]
                /\ coll' = Spawn(p.ph)
           ELSE /\ req' = [req EXCEPT !.kind = kind, !.pc = "xlen", !.head = p.ph]
                /\ UNCHANGED <<coll, chans>>
    /\ UNCHANGED <<storage, sent>>

RequestStream == Request("stream")

RequestGet == Request("get")

\* the handler has returned and the client has its response; the next
\* request of the client may begin
RequestEnds ==
    /\ req.pc = "done"
    /\ coll.pc \in {"none", "done"}
    /\ req' = [NoRequest EXCEPT
                 !.toldFinished = req.toldFinished \/ req.answer = "finished"]
    /\ coll' = NoCollector
    /\ chans' = NoChannels
    /\ sent' = <<>>
    /\ UNCHANGED storage

\* r.Timeout passes while the request is being served.  No handler
\* reads the field and no context carries a deadline.
DeadlinePasses ==
    /\ req.pc \notin {"idle", "done"}
    /\ ~req.late
    /\ req' = [req EXCEPT !.late = TRUE]
    /\ UNCHANGED <<storage, coll, chans, sent>>

\* the client of a request being served goes away, or the server shuts
\* down: net/http cancels the context of the http.Request.  The handlers
\* hand the *gin.Context to the storage and to collectResult (155, 171,
\* 215, 238); its Done() is nil, neither select has a case for it, and
\* XRead has Block: 0, so no line of the handlers or of the producer
\* sees the cancellation
ContextCancelled ==
    /\ req.pc \notin {"idle", "done"}
    /\ ~req.cancelled
    /\ req' = [req EXCEPT !.cancelled = TRUE]
    /\ UNCHANGED <<storage, coll, chans, sent>>

\* lines 229-243 of Get: 202 while the stream is shorter than ntasks,
\* else the channels and the producer
GetXLen ==
    /\ req.kind = "get"
    /\ req.pc = "xlen"
    /\ IF Len(storage.stream) < req.head.Ntasks
       THEN /\ req' = [req EXCEPT !.pc = "done", !.wire = 202,
                                   !.xlen = Len(storage.stream)]
            /\ UNCHANGED <<coll, chans>>
       ELSE /\ req' = [req EXCEPT !.pc = "select", !.count = 0,
                                   !.xlen = Len(storage.stream)]
            /\ chans' = [tiles  |-> <<>>,
                          cap    |-> GetChannelCapacity,
                          closed |-> FALSE]
            /\ coll' = Spawn(req.head)
    /\ UNCHANGED <<storage, sent>>

\* ---- Result.Status
\* strconv of a count: the decimal digits of n >= 0 as characters
RECURSIVE Digits(_)
Digits(n) == IF n < 10 THEN <<48 + n>> ELSE Digits(n \div 10) \o <<48 + (n % 10)>>

\* fmt.Sprintf("%d/%d", count, proc.Ntasks); 47 is '/'
Progress(k, n) == Digits(k) \o <<47>> \o Digits(n)

\* lines 295-315: the header.  redis.Nil is "pending", any other error
\* and a header that does not parse are 500
RequestStatus ==
    /\ req.pc = "idle"
    /\ \E busError \in BOOLEAN :
         LET h == storage.header
             p == parseProcessHeader(h.doc)
             r == [req EXCEPT !.kind = "status", !.busError = busError]
         IN  req' =
               IF busError
               THEN [r EXCEPT !.pc = "done", !.wire = 500]
               ELSE IF h.state # "present"
               THEN [r EXCEPT !.pc = "done", !.wire = 202, !.answer = "pending"]
               ELSE IF p.err
               THEN [r EXCEPT !.pc = "done", !.wire = 500]
               ELSE [r EXCEPT !.pc = "xlen", !.head = p.ph]
    /\ UNCHANGED <<storage, coll, chans, sent>>

\* Status that takes a stream of ntasks entries or more for finished
StatusXLenAtLeast ==
    /\ req.kind = "status"
    /\ req.pc = "xlen"
    /\ LET k == Len(storage.stream)
           n == req.head.Ntasks
       IN  req' =
             IF k >= n
             THEN [req EXCEPT !.pc = "done", !.wire = 200,
                              !.answer = "finished", !.progress = Progress(k, n)]
             ELSE [req EXCEPT !.pc = "done", !.wire = 202,
                              !.answer = "working", !.progress = Progress(k, n)]
    /\ UNCHANGED <<storage, coll, chans, sent>>

\* lines 317-340: XLen and the answer
StatusXLen ==
    /\ req.kind = "status"
    /\ req.pc = "xlen"
    /\ \E busError \in BOOLEAN :
         LET k == Len(storage.stream)
             n == req.head.Ntasks
         IN  req' =
               IF busError
               THEN [req EXCEPT !.pc = "done", !.wire = 500, !.busError = TRUE]
               ELSE IF k = n
               THEN [req EXCEPT !.pc = "done", !.wire = 200,
                                !.answer = "finished",
                                !.progress = Progress(k, n)]
               ELSE [req EXCEPT !.pc = "done", !.wire = 202,
                                !.answer = "working",
                                !.progress = Progress(k, n)]
    /\ UNCHANGED <<storage, coll, chans, sent>>

\* ---- collectResult
\* collectResult without lines 105-111: the loop of tiles at once
CollectPackTilesFirst ==
    /\ coll.pc = "pack"
    /\ coll' = [coll EXCEPT !.pc = "loop", !.streamCursor = 0, !.count = 0]
    /\ UNCHANGED <<storage, req, chans, sent>>

\* lines 105-111: derive and pack the ResultHeader; the packed header is
\* the first value sent on tiles, an error of Pack goes to failure
CollectPack ==
    /\ coll.pc = "pack"
    /\ \E packs \in BOOLEAN :
         coll' = IF packs
                 THEN [coll EXCEPT
                         !.pc = "send",
                         !.out = PackResultHeader(resultFromProcessHeader(coll.head))]
                 ELSE [coll EXCEPT !.pc = "fail", !.err = "pack"]
    /\ UNCHANGED <<storage, req, chans, sent>>

\* the goroutine once its send on tiles has completed: after the header
\* lines 113-114, after a tile lines 144-147 (the tile is the only field
\* of its message, so the cursor moves to the id of the message)
AfterSend(c) ==
    IF c.at = 0
    THEN [c EXCEPT !.pc = "loop", !.streamCursor = 0, !.count = 0]
    ELSE [c EXCEPT !.pc = "message",
                   !.count = @ + 1,
                   !.streamCursor = c.reply[c.at].id,
                   !.at = @ + 1]

\* tiles <- v on a channel with a buffer that has room
CollectSend ==
    /\ coll.pc = "send"
    /\ Len(chans.tiles) < chans.cap
    /\ chans' = [chans EXCEPT !.tiles = Append(@, coll.out)]
    /\ sent' = Append(sent, coll.out)
    /\ coll' = AfterSend(coll)
    /\ UNCHANGED <<storage, req>>

\* a return at line 150 without the deferred close
CollectReturnLeavesOpen ==
    /\ coll.pc = "loop"
    /\ ~(coll.count < coll.head.Ntasks)
    /\ coll' = [coll EXCEPT !.pc = "done"]
    /\ UNCHANGED <<storage, req, chans, sent>>

\* line 116 false, then 150 and the deferred close(tiles)
CollectReturn ==
    /\ coll.pc = "loop"
    /\ ~(coll.count < coll.head.Ntasks)
    /\ coll' = [coll EXCEPT !.pc = "done"]
    /\ chans' = [chans EXCEPT !.closed = TRUE]
    /\ UNCHANGED <<storage, req, sent>>

\* XRead that ignores the cursor: the whole stream at every read
XReadFromStart(stream, cursor) ==
    [k \in 1..Len(stream) |-> [id |-> k, entry |-> stream[k]]]

\* the messages of the stream behind the cursor, each with its id (its
\* position in the stream)
XRead(stream, cursor) ==
    [k \in 1..(Len(stream) - cursor) |->
        [id |-> cursor + k, entry |-> stream[cursor + k]]]

\* lines 117-121: XRead with Block: 0 returns once the stream holds
\* entries behind the cursor, all of them
CollectXRead ==
    /\ coll.pc = "loop"
    /\ coll.count < coll.head.Ntasks
    /\ Len(storage.stream) > coll.streamCursor
    /\ coll' = [coll EXCEPT !.pc = "message",
                            !.reply = XRead(storage.stream, coll.streamCursor),
                            !.at = 1]
    /\ UNCHANGED <<storage, req, chans, sent>>

\* lines 123-126: XRead returns an error
CollectXReadError ==
    /\ coll.pc = "loop"
    /\ coll.count < coll.head.Ntasks
    /\ coll' = [coll EXCEPT !.pc = "fail", !.err = "bus"]
    /\ UNCHANGED <<storage, req, chans, sent>>

\* lines 128-143: the next message of the reply, up to its channel send;
\* behind the last message back to line 116
MessageStep(c) ==
    IF c.at > Len(c.reply)
    THEN [c EXCEPT !.pc = "loop"]
    ELSE LET e == c.reply[c.at].entry
         IN  IF e.key = "error"
             THEN [c EXCEPT !.pc = "fail", !.err = "worker"]
             ELSE IF ~e.isString
             THEN [c EXCEPT !.pc = "fail", !.err = "type"]
             ELSE [c EXCEPT !.pc = "send", !.out = e.val]

CollectMessage ==
    /\ coll.pc = "message"
    /\ coll' = MessageStep(coll)
    /\ UNCHANGED <<storage, req, chans, sent>>

\* ---- the select loop of Stream (184-208) and of Get (245-260)
\* what the handler does with a value received from tiles
Consume(r, frame) ==
    IF r.kind = "stream"
    THEN [r EXCEPT !.body = Append(@, StreamFrame(frame)),
                   !.wire = IF @ = 0 THEN 200 ELSE @]
    ELSE [r EXCEPT !.result = @ \o frame, !.count = @ + 1]

\* case output, ok := <-tiles with ok: from the buffer
ReceiveBuffered ==
    /\ req.pc = "select"
    /\ chans.tiles # <<>>
    /\ req' = Consume(req, Head(chans.tiles))
    /\ chans' = [chans EXCEPT !.tiles = Tail(@)]
    /\ UNCHANGED <<storage, coll, sent>>

\* the same on a channel without buffer: the send of the producer and
\* the receive of the handler meet
ReceiveDirect ==
    /\ req.pc = "select"
    /\ chans.cap = 0
    /\ coll.pc = "send"
    /\ req' = Consume(req, coll.out)
    /\ sent' = Append(sent, coll.out)
    /\ coll' = AfterSend(coll)
    /\ UNCHANGED <<storage, chans>>

\* case output, ok := <-tiles with ok false: the channel is closed and
\* drained.  Stream flushes; Get checks its count and answers.
ConsumeClosed(r) ==
    IF r.kind = "stream"
    THEN [r EXCEPT !.pc = "done", !.wire = IF @ = 0 THEN 200 ELSE @]
    ELSE IF r.count < r.head.Ntasks
    THEN [r EXCEPT !.pc = "done", !.wire = 500]
    ELSE [r EXCEPT !.pc = "done", !.wire = 200, !.body = <<r.result>>]

ReceiveClosed ==
    /\ req.pc = "select"
    /\ chans.closed
    /\ chans.tiles = <<>>
    /\ req' = ConsumeClosed(req)
    /\ UNCHANGED <<storage, coll, chans, sent>>

\* a handler that logs the failure and goes on selecting
ReceiveFailureGoesOn ==
    /\ req.pc = "select"
    /\ coll.pc = "fail"
    /\ coll' = [coll EXCEPT !.pc = "done"]
    /\ chans' = [chans EXCEPT !.closed = TRUE]
    /\ UNCHANGED <<storage, req, sent>>

\* case err := <-failure: the send of the producer (which then returns,
\* closing tiles) and the receive meet; AbortWithStatus(500) writes the
\* status line unless one has been written
\* a handler that looks at failure only once tiles is closed
ReceiveFailureAfterClose ==
    /\ req.pc = "select"
    /\ coll.pc = "fail"
    /\ chans.closed
    /\ req' = [req EXCEPT !.pc = "done", !.wire = IF @ = 0 THEN 500 ELSE @]
    /\ coll' = [coll EXCEPT !.pc = "done"]
    /\ UNCHANGED <<storage, chans, sent>>

ConsumeFailure(r) ==
    [r EXCEPT !.pc = "done", !.wire = IF @ = 0 THEN 500 ELSE @]

ReceiveFailure ==
    /\ req.pc = "select"
    /\ coll.pc = "fail"
    /\ req' = ConsumeFailure(req)
    /\ coll' = [coll EXCEPT !.pc = "done"]
    /\ chans' = [chans EXCEPT !.closed = TRUE]
    /\ UNCHANGED <<storage, sent>>

BrokerNext ==
    \/ SchedulerWriteHeader
    \/ HeaderExpire
    \/ WorkerAppend
    \/ RequestStream
    \/ RequestGet
    \/ RequestEnds
    \/ DeadlinePasses
    \/ ContextCancelled
    \/ GetXLen
    \/ RequestStatus
    \/ StatusXLen
    \/ CollectPack
    \/ CollectSend
    \/ CollectReturn
    \/ CollectXRead
    \/ CollectXReadError
    \/ CollectMessage
    \/ ReceiveBuffered
    \/ ReceiveDirect
    \/ ReceiveClosed
    \/ ReceiveFailure

(***************************************************************************)
(* Several requests on one pid at a time.  gin serves every request in a   *)
(* goroutine of its own; a handler makes its channels and starts its       *)
(* producer itself (endpoint.go 169-171, 236-238), streamCursor and count  *)
(* are locals of collectResult (113-114), and the handlers share nothing   *)
(* but the storage.  The header of the pid is there and parses.            *)
(***************************************************************************)
\* the requests served at a time
MaxRequests == 2

\* the headers of the pid: those of the broker that parse
ConcHeaders == {h \in ProcessHeaders : h.Ntasks >= 1 /\ h.Shape = <<1, 1, 1>>}

\* what a worker appends as the k-th entry: the tile of its task, or the
\* error it ran into
ConcEntries(k) ==
    { [key |-> "tile", isString |-> TRUE, val |-> <<k>>],
      [key |-> "error", isString |-> TRUE, val |-> <<5>>] }

NoExchange == [hand |-> NoRequest, prod |-> NoCollector]

ConcIdle ==
    /\ chead = NilHead
    /\ cstream = <<>>
    /\ reqs = <<>>

ConcInit ==
    /\ chead \in ConcHeaders
    /\ cstream = <<>>
    /\ reqs = [k \in 1..MaxRequests |-> NoExchange]

\* a worker appends an entry to the stream of the pid
ConcAppend ==
    /\ Len(cstream) < MaxEntries
    /\ \E e \in ConcEntries(Len(cstream) + 1) : cstream' = Append(cstream, e)
    /\ UNCHANGED <<chead, reqs>>

\* what a request does between two reads of the storage, which touches
\* only its own locals, channels and response: the producer handles the
\* messages of its reply (128-147), each send on tiles is received by its
\* handler (185-199, 246-252), a failure ends both (201-206, 253-257), and
\* at line 116 the producer either returns, which its handler sees as the
\* close of tiles, or stands at the next XRead
RECURSIVE RunLocal(_)
RunLocal(ex) ==
    LET h == ex.hand
        p == ex.prod
    IN  IF p.pc = "send"
        THEN RunLocal([hand |-> Consume(h, p.out), prod |-> AfterSend(p)])
        ELSE IF p.pc = "message"
        THEN RunLocal([ex EXCEPT !.prod = MessageStep(p)])
        ELSE IF p.pc = "fail"
        THEN [hand |-> ConsumeFailure(h), prod |-> [p EXCEPT !.pc = "done"]]
        ELSE IF p.pc = "loop" /\ ~(p.count < p.head.Ntasks)
        THEN [hand |-> ConsumeClosed(h), prod |-> [p EXCEPT !.pc = "done"]]
        ELSE ex

\* request k comes: the requests are numbered in the order they come
Comes(k) ==
    /\ reqs[k].hand.pc = "idle"
    /\ k > 1 => reqs[k - 1].hand.pc # "idle"

\* lines 105-111: the producer packs the header, or fails to
Packed(p, packs) ==
    IF packs
    THEN [p EXCEPT !.pc = "send",
                   !.out = PackResultHeader(resultFromProcessHeader(p.head))]
    ELSE [p EXCEPT !.pc = "fail", !.err = "pack"]

\* lines 154-171: Stream reads the header, makes its channels and starts
\* its producer
ConcStream(k) ==
    /\ Comes(k)
    /\ \E packs \in BOOLEAN :
         reqs' = [reqs EXCEPT ![k] = RunLocal(
                    [hand |-> [reqs[k].hand EXCEPT !.kind = "stream",
                                                   !.pc = "select",
                                                   !.head = chead],
                     prod |-> Packed(Spawn(chead), packs)])]
    /\ UNCHANGED <<chead, cstream>>

\* lines 214-238: Get reads the header and XLen; 202 while the stream is
\* shorter than ntasks, else its channels and its producer
ConcGet(k) ==
    /\ Comes(k)
    /\ \E packs \in BOOLEAN :
         reqs' =
           IF Len(cstream) < chead.Ntasks
           THEN [reqs EXCEPT
                   ![k].hand = [@ EXCEPT !.kind = "get", !.pc = "done",
                                         !.head = chead, !.wire = 202,
                                         !.xlen = Len(cstream)]]
           ELSE [reqs EXCEPT ![k] = RunLocal(
                   [hand |-> [reqs[k].hand EXCEPT !.kind = "get",
                                                  !.pc = "select",
                                                  !.head = chead,
                                                  !.xlen = Len(cstream)],
                    prod |-> Packed(Spawn(chead), packs)])]
    /\ UNCHANGED <<chead, cstream>>

\* lines 295-340: Status reads the header and XLen and answers
ConcStatus(k) ==
    /\ Comes(k)
    /\ LET n == Len(cstream)
       IN  reqs' = [reqs EXCEPT
                      ![k].hand =
                         [@ EXCEPT !.kind = "status", !.pc = "done",
                                   !.head = chead, !.xlen = n,
                                   !.wire = IF n = chead.Ntasks
                                            THEN 200 ELSE 202,
                                   !.answer = IF n = chead.Ntasks
                                              THEN "finished" ELSE "working",
                                   !.progress = Progress(n, chead.Ntasks)]]
    /\ UNCHANGED <<chead, cstream>>

\* an XRead that takes what it returns out of the stream
ConcXReadConsuming(k) ==
    /\ reqs[k].prod.pc = "loop"
    /\ Len(cstream) > reqs[k].prod.streamCursor
    /\ reqs' = [reqs EXCEPT ![k] = RunLocal(
                  [reqs[k] EXCEPT
                     !.prod.pc = "message",
                     !.prod.reply = XRead(cstream, reqs[k].prod.streamCursor),
                     !.prod.at = 1])]
    /\ cstream' = SubSeq(cstream, 1, reqs[k].prod.streamCursor)
    /\ UNCHANGED chead

\* lines 117-121 of the producer of request k: XRead from its own cursor,
\* and what follows up to the next XRead
ConcXRead(k) ==
    /\ reqs[k].prod.pc = "loop"
    /\ Len(cstream) > reqs[k].prod.streamCursor
    /\ reqs' = [reqs EXCEPT ![k] = RunLocal(
                  [reqs[k] EXCEPT
                     !.prod.pc = "message",
                     !.prod.reply = XRead(cstream, reqs[k].prod.streamCursor),
                     !.prod.at = 1])]
    /\ UNCHANGED <<chead, cstream>>

\* lines 123-126 of the producer of request k: XRead returns an error
ConcXReadError(k) ==
    /\ reqs[k].prod.pc = "loop"
    /\ reqs' = [reqs EXCEPT ![k] = RunLocal(
                  [reqs[k] EXCEPT !.prod.pc = "fail", !.prod.err = "bus"])]
    /\ UNCHANGED <<chead, cstream>>

ConcNext ==
    \/ ConcAppend
    \/ \E k \in 1..MaxRequests :
          \/ ConcStream(k)
          \/ ConcGet(k)
          \/ ConcStatus(k)
          \/ ConcXRead(k)
          \/ ConcXReadError(k)

(***************************************************************************)
(* The slice builder: schedule_maker< slice_task, slice_fetch >::build     *)
(* (plan.cpp 155-194)                                                      *)
(***************************************************************************)
\* the lists of line numbers a manifest gives for a dimension
DimensionIndexes ==
    {<<5>>, <<1, 2, 3>>, <<10, 20>>, <<4, 2, 4>>, <<6, 7, 8, 9>>}

\* the line numbers asked for
LineNumbers == {0, 1, 2, 3, 4, 5, 9, 10, 20}

\* std::find that starts at the second element
FindFromSecond(index, x) ==
    LET hits == {k \in 2..Len(index) : index[k] = x}
    IN  IF hits = {} THEN Len(index) + 1
        ELSE CHOOSE k \in hits : \A j \in hits : k <= j

\* std::find(index.begin(), index.end(), x): the first position that
\* holds x, the end (one past the last) when none does; positions from 1
RECURSIVE FindFrom(_, _, _)
FindFrom(index, x, k) ==
    IF k > Len(index) THEN k
    ELSE IF index[k] = x THEN k
    ELSE FindFrom(index, x, k + 1)

Find(index, x) == FindFrom(index, x, 1)

\* geometry(dimensions, shape): the cube is as long as the dimensions
geometry(dimensions, shape) ==
    [cube |-> [k \in Axes |-> Len(dimensions[k])], frag |-> shape]

NoFetch == [shape_cube |-> <<>>, lineno |-> 0, ids |-> <<>>]

SliceIdle ==
    /\ slice_task = [dim |-> 0, lineno |-> 0, shape |-> <<1, 1, 1>>]
    /\ manifest = [dimensions |-> <<<<5>>, <<5>>, <<5>>>>]
    /\ slice_out = NoFetch
    /\ bpc = "idle"
    /\ berr = "none"

SliceInit ==
    /\ slice_task \in [dim : 0..2, lineno : LineNumbers,
                        shape : [Axes -> 1..MaxFrag]]
    /\ manifest \in [dimensions : [Axes -> DimensionIndexes]]
    /\ slice_out = NoFetch
    /\ bpc = "start"
    /\ berr = "none"

\* a build that hands out the global pin as lineno
SliceBuildGlobalPin ==
    /\ bpc = "start"
    /\ LET index == manifest.dimensions[slice_task.dim + 1]
           itr   == Find(index, slice_task.lineno)
           pin   == itr - 1
           gvt   == geometry(manifest.dimensions, slice_task.shape)
       IN  IF itr = Len(index) + 1
           THEN /\ bpc' = "thrown"
                /\ berr' = "invalid_argument"
                /\ UNCHANGED slice_out
           ELSE /\ slice_out' =
                     [shape_cube |-> gvt.cube,
                      lineno     |-> pin,
                      ids        |-> slice(gvt, slice_task.dim, pin)]
                /\ bpc' = "built"
                /\ UNCHANGED berr
    /\ UNCHANGED <<slice_task, manifest>>

\* lines 168-193
SliceBuild ==
    /\ bpc = "start"
    /\ LET index == manifest.dimensions[slice_task.dim + 1]
           itr   == Find(index, slice_task.lineno)
           pin   == itr - 1
           gvt   == geometry(manifest.dimensions, slice_task.shape)
       IN  IF itr = Len(index) + 1
           THEN /\ bpc' = "thrown"
                /\ berr' = "invalid_argument"
                /\ UNCHANGED slice_out
           ELSE /\ slice_out' =
                     [shape_cube |-> gvt.cube,
                      lineno     |-> pin % gvt.frag[slice_task.dim + 1],
                      ids        |-> slice(gvt, slice_task.dim, pin)]
                /\ bpc' = "built"
                /\ UNCHANGED berr
    /\ UNCHANGED <<slice_task, manifest>>

SliceNext == SliceBuild

(***************************************************************************)
(* Specifications: one per subsystem, the others idle                      *)
(***************************************************************************)
InitPartition ==
    PartInit /\ GeomIdle /\ CurtIdle /\ KeyIdle /\ GateIdle
        /\ BrokerIdle /\ SliceIdle /\ ConcIdle

NextPartition ==
    /\ PartNext
    /\ UNCHANGED <<geomVars, curtVars, keyVars, gateVars, brokerVars, sliceVars, concVars>>

SpecPartition == InitPartition /\ [][NextPartition]_vars

InitGeometry ==
    GeomInit /\ PartIdle /\ CurtIdle /\ KeyIdle /\ GateIdle
        /\ BrokerIdle /\ SliceIdle /\ ConcIdle

NextGeometry ==
    /\ GeomNext
    /\ UNCHANGED <<partVars, curtVars, keyVars, gateVars, brokerVars, sliceVars, concVars>>

SpecGeometry == InitGeometry /\ [][NextGeometry]_vars

InitCurtain ==
    CurtInit /\ PartIdle /\ GeomIdle /\ KeyIdle /\ GateIdle
        /\ BrokerIdle /\ SliceIdle /\ ConcIdle

NextCurtain ==
    /\ CurtNext
    /\ UNCHANGED <<partVars, geomVars, keyVars, gateVars, brokerVars, sliceVars, concVars>>

SpecCurtain == InitCurtain /\ [][NextCurtain]_vars

InitKeyring ==
    KeyInit /\ PartIdle /\ GeomIdle /\ CurtIdle /\ GateIdle
        /\ BrokerIdle /\ SliceIdle /\ ConcIdle

NextKeyring ==
    /\ KeyNext
    /\ UNCHANGED <<partVars, geomVars, curtVars, gateVars, brokerVars, sliceVars, concVars>>

SpecKeyring == InitKeyring /\ [][NextKeyring]_vars

InitCallerGate ==
    GateInit /\ PartIdle /\ GeomIdle /\ CurtIdle /\ KeyIdle /\ BrokerIdle /\ SliceIdle /\ ConcIdle

NextCallerGate ==
    /\ GateNext
    /\ UNCHANGED <<partVars, geomVars, curtVars, keyVars, brokerVars, sliceVars, concVars>>

SpecCallerGate == InitCallerGate /\ [][NextCallerGate]_vars

InitBroker ==
    BrokerInit /\ PartIdle /\ GeomIdle /\ CurtIdle /\ KeyIdle /\ GateIdle
        /\ SliceIdle /\ ConcIdle

NextBroker ==
    /\ BrokerNext
    /\ UNCHANGED <<partVars, geomVars, curtVars, keyVars, gateVars, sliceVars, concVars>>

SpecBroker == InitBroker /\ [][NextBroker]_vars

InitSliceBuild ==
    SliceInit /\ PartIdle /\ GeomIdle /\ CurtIdle /\ KeyIdle /\ GateIdle
        /\ BrokerIdle /\ ConcIdle

NextSliceBuild ==
    /\ SliceNext
    /\ UNCHANGED <<partVars, geomVars, curtVars, keyVars, gateVars, brokerVars, concVars>>

SpecSliceBuild == InitSliceBuild /\ [][NextSliceBuild]_vars

InitConcurrent ==
    ConcInit /\ PartIdle /\ GeomIdle /\ CurtIdle /\ KeyIdle /\ GateIdle
        /\ BrokerIdle /\ SliceIdle

NextConcurrent ==
    /\ ConcNext
    /\ UNCHANGED <<partVars, geomVars, curtVars, keyVars, gateVars, brokerVars,
                   sliceVars>>

SpecConcurrent == InitConcurrent /\ [][NextConcurrent]_vars

(***************************************************************************)
(* Claims about partition                                                  *)
(***************************************************************************)
PartitionEnded == ppc \in {"returned", "thrown"}

\* the ids fields of the packed chunks, in output order
ChunkIds == [k \in 1..Len(xs) |-> UnpackIds(xs[k])]

\* C1: for every Fetch with n >= 1 ids and every task_size >= 1, partition
\* returns packed chunks whose ids lists, concatenated in output order, are
\* the pre-partition ids list.
C1_ConcatReproducesIds ==
    (PartitionEnded /\ Len(fetch0.ids) >= 1 /\ task_size >= 1)
        => (ppc = "returned" /\ Concat(ChunkIds) = fetch0.ids)

\* What holds of C1 on the code: every list of chunks partition returns
\* reproduces the ids; where the sum of task_count stays within 32 bits
\* partition does return.
C1_HoldsOfReturned ==
    /\ ppc = "returned" => Concat(ChunkIds) = fetch0.ids
    /\ (PartitionEnded /\ Len(fetch0.ids) >= 1 /\ task_size >= 1
            /\ task_size <= IntMax - Len(fetch0.ids) + 1)
        => ppc = "returned"

\* C2: for every Fetch with n >= 1 ids and every task_size >= 1, partition
\* emits exactly ceil(n / task_size) chunks, every chunk but the last of
\* exactly task_size ids and the last of 1..task_size ids.
C2_ChunkCountAndSizes ==
    (PartitionEnded /\ Len(fetch0.ids) >= 1 /\ task_size >= 1)
        => /\ ppc = "returned"
           /\ Len(xs) = CeilDiv(Len(fetch0.ids), task_size)
           /\ \A k \in 1..(Len(xs) - 1) : Len(ChunkIds[k]) = task_size
           /\ Len(ChunkIds[Len(xs)]) \in 1..task_size

\* What holds of C2 on the code: the chunks partition returns have the
\* count and the sizes of the claim.
C2_HoldsOfReturned ==
    (ppc = "returned" /\ Len(fetch0.ids) >= 1)
        => /\ Len(xs) = CeilDiv(Len(fetch0.ids), task_size)
           /\ \A k \in 1..(Len(xs) - 1) : Len(ChunkIds[k]) = task_size
           /\ Len(ChunkIds[Len(xs)]) \in 1..task_size

(***************************************************************************)
(* Claims about the geometry kernel                                        *)
(***************************************************************************)
Range(f) == {f[k] : k \in DOMAIN f}

\* C3: for every geometry with positive components, also a cube shape that
\* is no multiple of the fragment shape, and every in-range point p,
\* to_global(frag_id(p), to_local(p)) = p, the local point being p mod
\* FragmentShape (inside the fragment) and the id p / FragmentShape; the
\* tests' points get the local coordinates the tests expect.
C3_RoundTrip ==
    gpc = "converted" =>
        /\ gres.global = gpoint
        /\ \A k \in Axes :
              /\ gres.local[k] \in 0..(geom.frag[k] - 1)
              /\ gres.id[k] >= 0
              /\ gres.id[k] * geom.frag[k] <= gpoint[k]
              /\ gpoint[k] < (gres.id[k] + 1) * geom.frag[k]
        /\ \A t \in TestLocals :
              (geom.cube = t.cube /\ geom.frag = t.frag /\ gpoint = t.p)
                  => gres.local = t.local

\* a point beyond the first fragment, off the fragment's corner, in a cube
\* that is no multiple of the fragment, has been converted
C3_Witness ==
    /\ gpc = "converted"
    /\ \E k \in Axes :
          /\ geom.cube[k] % geom.frag[k] # 0
          /\ gres.id[k] > 0
          /\ gres.local[k] > 0

\* C4: slice(dim, pin) returns exactly the ids whose dim component is
\* pin / FragmentShape[dim] and whose other components are those of the
\* fragments that start inside the cube (0..ceil(cube/frag)-1), each once,
\* strictly ascending lexicographically; its length is the product of the
\* fragment counts of the other two axes; on the tests' cube it returns the
\* lists the tests expect. (Ids that are all in that set, strictly
\* ascending and as many as the set has members are the set, each once.)
C4_SliceIds ==
    gpc = "sliced" =>
        LET s   == gres.slice
            pin == gpoint[gdim + 1]
            others == (0..2) \ {gdim}
            cnt(d) == CHOOSE c \in 1..geom.cube[d + 1] :
                         /\ (c - 1) * geom.frag[d + 1] < geom.cube[d + 1]
                         /\ geom.cube[d + 1] <= c * geom.frag[d + 1]
            lo  == CHOOSE d \in others : \A e \in others : d <= e
            hi  == CHOOSE d \in others : \A e \in others : e <= d
        IN  /\ \A j \in 1..Len(s) :
                 /\ s[j][gdim + 1] = pin \div geom.frag[gdim + 1]
                 /\ \A d \in others : s[j][d + 1] \in 0..(cnt(d) - 1)
            /\ \A j \in 1..(Len(s) - 1) : LexLess(s[j], s[j + 1])
            /\ Len(s) = cnt(lo) * cnt(hi)
            /\ \A d \in 0..2 : fragment_count(geom, d) = cnt(d)
            /\ (geom = TestSliceGeometry /\ pin = TestSlicePins[gdim + 1])
                  => s = TestSliceExpected[gdim + 1]

\* a slice of several fragments along both free axes, pinned beyond the
\* first fragment of an axis the fragment does not divide
C4_Witness ==
    /\ gpc = "sliced"
    /\ Len(gres.slice) >= 4
    /\ gres.slice[1][gdim + 1] > 0
    /\ geom.cube[gdim + 1] % geom.frag[gdim + 1] # 0
    /\ \A d \in (0..2) \ {gdim} : fragment_count(geom, d) >= 2

(***************************************************************************)
(* Claims about the curtain builder                                        *)
(***************************************************************************)
StrictlyAscending(v) ==
    \A j \in 1..(Len(v) - 1) : LexLess(v[j].id, v[j + 1].id)

\* C5: for every list of in-range (x, y) pairs, in any order, with
\* duplicates and repeated columns, the ids the curtain builder builds are
\* strictly lexicographically ascending with no FragmentID twice, after
\* every step of the bucket allocation pass, and every step of the
\* coordinate insertion pass leaves the ids and their order as they were.
C5_IdsStrictlyAscending ==
    /\ [](cpc \in {"alloc", "insert", "built"} =>
            /\ StrictlyAscending(cids)
            /\ \A j, k \in 1..Len(cids) : j # k => cids[j].id # cids[k].id)
    /\ [][(cpc = "insert" /\ cpc' \in {"insert", "built"}) =>
             [k \in 1..Len(cids') |-> cids'[k].id]
                 = [k \in 1..Len(cids) |-> cids[k].id]]_vars

\* a curtain has been built from three pairs of which the second lies in a
\* column before the first one's and the third repeats the first, through
\* fragments stacked at least two high
C5_Witness ==
    /\ cpc = "built"
    /\ Len(ctask.dim0s) = 3
    /\ LexLess(ColumnId(cgeom, ctask, 2), ColumnId(cgeom, ctask, 1))
    /\ ctask.dim0s[3] = ctask.dim0s[1]
    /\ ctask.dim1s[3] = ctask.dim1s[1]
    /\ fragment_count(cgeom, 2) >= 2
    /\ Len(cids) = 2 * fragment_count(cgeom, 2)

(***************************************************************************)
(* Claims about the keyring and the result gate                            *)
(***************************************************************************)

\* the token the keyring signed last for pid, with the key of the ring
Genuine(t, pid) ==
    /\ t.kind = "jwt"
    /\ t.alg = "HS256"
    /\ t.pid = pid
    /\ t.mac = <<RingKey, "HS256", pid, t.exp>>

\* C6: a token Sign(p) produced expires 5 minutes after its issuance,
\* validates against p at every time before that, and fails to validate
\* once the expiry has passed.
C6_SignedTokenValidUntilExpiry ==
    (/\ call.op = "Validate"
     /\ issue.by = "Sign"
     /\ call.token = tok
     /\ call.pid = issue.pid)
        => /\ tok.exp = issue.at + 5
           /\ call.at < issue.at + 5 => call.err = "ok"
           /\ call.at > issue.at + 5 => call.err # "ok"

\* a token of Sign was validated for its pid after its expiry
C6_Witness ==
    /\ call.op = "Validate"
    /\ issue.by = "Sign"
    /\ call.token = tok
    /\ call.pid = issue.pid
    /\ call.at > issue.at + 5
    /\ call.err = "expired"

\* a token of Sign was validated for its pid some time before its expiry
C6_WitnessValid ==
    /\ call.op = "Validate"
    /\ issue.by = "Sign"
    /\ call.token = tok
    /\ call.pid = issue.pid
    /\ call.at > issue.at
    /\ call.at < issue.at + 5
    /\ call.err = "ok"

\* C7: for pids p and q # p, Validate(Sign(p), q) fails, also while the
\* token is unexpired and correctly signed; no request to the results of a
\* process reaches its endpoint with a token issued for another one.
C7_TokenBoundToPid ==
    /\ (call.op = "Validate" /\ call.token.kind = "jwt"
            /\ call.token.pid # call.pid)
          => call.err # "ok"
    /\ (call.op = "Result" /\ call.handled)
          => call.authorization[2].pid = call.pid

\* an unexpired token of Sign for one process was refused for the other
C7_Witness ==
    /\ call.op = "Validate"
    /\ issue.by = "Sign"
    /\ call.token = tok
    /\ Genuine(tok, issue.pid)
    /\ call.pid # issue.pid
    /\ call.at < tok.exp
    /\ call.err = "invalid_pid"

BearerForm(h) == Len(h) >= 2 /\ h[1] = "Bearer"

\* C8: a request to a result endpoint reaches its handler only if the
\* Authorization header is 'Bearer <token>' and the token validates for
\* the pid of the path (genuine, for that pid, unexpired); a missing or
\* non-Bearer header is answered 401, a token that fails validation 403,
\* and in both cases the request is aborted and its handler never reads
\* the stream bus.
C8_ResultGate ==
    call.op = "Result" =>
        LET h    == call.authorization
            good == /\ BearerForm(h)
                    /\ Genuine(h[2], call.pid)
                    /\ call.at <= h[2].exp
        IN  /\ call.handled => good
            /\ ~BearerForm(h) => (call.status = 401 /\ call.aborted)
            /\ (BearerForm(h) /\ ~good) => (call.status = 403 /\ call.aborted)
            /\ call.aborted => (~call.handled /\ call.busReads = 0)
            /\ good => ~call.aborted

\* a request with a genuine, unexpired token of another process was
\* answered 403 and aborted
C8_Witness ==
    /\ call.op = "Result"
    /\ BearerForm(call.authorization)
    /\ \E pid \in Pids \ {call.pid} : Genuine(call.authorization[2], pid)
    /\ call.at < call.authorization[2].exp
    /\ call.status = 403
    /\ call.aborted
    /\ call.busReads = 0

\* a request without a Bearer token was answered 401 and aborted
C8_Witness401 ==
    /\ call.op = "Result"
    /\ call.authorization \in {<<>>, <<"Bearer">>}
    /\ call.status = 401
    /\ call.aborted

\* a request with a valid token reached its endpoint
C8_WitnessHandled ==
    /\ call.op = "Result"
    /\ call.handled
    /\ call.busReads = 1

(***************************************************************************)
(* Claims about the caller gate                                            *)
(***************************************************************************)

\* C9: a request passes the caller gate only if its bearer JWT carries
\* issuer and audience claims equal to the configured ones, has a kid
\* naming a key of the key set and a signature that verifies with that
\* key; every other request is answered 401.
C9_CallerGate ==
    creq.op = "Caller" =>
        LET h    == creq.authorization
            good == /\ Len(h) = 2
                    /\ h[1] = "Bearer"
                    /\ h[2].kind = "jwt"
                    /\ h[2].iss = Issuer
                    /\ h[2].aud = Audience
                    /\ h[2].kid \in KeySet
                    /\ h[2].signedWith = h[2].kid
        IN  /\ creq.outcome = "pass" => good
            /\ creq.handled => good
            /\ ~good => creq.outcome = "401"

\* What holds of C9 on the code: a request that passes carries a JWT
\* signed, unexpired, with the key its kid names in the key set, and no
\* issuer or audience claim other than the configured ones.
C9_HoldsOfPassed ==
    (creq.op = "Caller" /\ creq.outcome = "pass") =>
        LET t == creq.authorization[2]
        IN  /\ t.kind = "jwt"
            /\ t.iss \in {Issuer, "absent"}
            /\ t.aud \in {Audience, "absent"}
            /\ t.kid \in KeySet
            /\ t.signedWith = t.kid
            /\ ~t.expired

(***************************************************************************)
(* Claims about the result broker                                          *)
(***************************************************************************)

\* the packed ResultHeader of the request: bundles = ntasks, shape and
\* index those of the ProcessHeader the handler parsed
HeaderFrame == PackHeader(req.head.Ntasks, req.head.Shape, req.head.Index)

\* s begins with p
StartsWith(s, p) == Len(s) >= Len(p) /\ SubSeq(s, 1, Len(p)) = p

\* C10: in every Stream and Get exchange the packed ResultHeader
\* (bundles = ntasks, shape and index of the ProcessHeader) is the first
\* frame the producer puts on the tile channel and the first frame the
\* client receives; no tile is delivered before it.
C10_HeaderFrameFirst ==
    /\ sent # <<>> => sent[1] = HeaderFrame
    /\ chans.tiles # <<>> => Len(chans.tiles) <= Len(sent)
    /\ (req.kind = "stream" /\ req.body # <<>>) =>
          req.body[1] = Sprintf010d(10 + Len(HeaderFrame)) \o HeaderFrame
    /\ (req.kind = "get" /\ req.count > 0) => StartsWith(req.result, HeaderFrame)
    /\ (req.kind = "get" /\ req.wire = 200) =>
          /\ Len(req.body) = 1
          /\ StartsWith(req.body[1], HeaderFrame)
    /\ (req.kind = "get" /\ req.wire # 200) => req.body = <<>>

\* a Stream exchange in which the client has received the header frame
\* and a tile behind it
C10_Witness ==
    /\ req.kind = "stream"
    /\ Len(req.body) >= 2
    /\ Len(sent) >= 2
    /\ sent[2] \in TilePayloads

\* a Get exchange answered 200 with the header and a tile behind it
C10_WitnessGet ==
    /\ req.kind = "get"
    /\ req.wire = 200
    /\ Len(sent) >= 2
    /\ Len(req.body[1]) > Len(HeaderFrame)

\* the payloads of the first n entries of the stream, in stream order
FirstTiles(n) == [j \in 1..n |-> storage.stream[j].val]

\* the bytes Stream wrote behind the ten characters of the prefix
Payload(w) == SubSeq(w, 11, Len(w))

\* C11: the tiles delivered to the client by Stream, and concatenated by
\* Get, are the tiles of the entries of the pid's stream from the first
\* entry on, in the order the workers appended them: none reordered,
\* skipped or repeated, for every interleaving of appends and reads.
C11_TilesInStreamOrder ==
    /\ sent # <<>> =>
          /\ Len(sent) - 1 <= Len(storage.stream)
          /\ Tail(sent) = FirstTiles(Len(sent) - 1)
          /\ \A j \in 1..(Len(sent) - 1) :
                storage.stream[j].key = "tile" /\ storage.stream[j].isString
    /\ req.kind = "stream" =>
          /\ Len(req.body) <= Len(sent)
          /\ \A j \in 2..Len(req.body) : Payload(req.body[j]) = sent[j]
    /\ (req.kind = "get" /\ req.pc # "idle") =>
          /\ req.count <= Len(sent)
          /\ req.result = Concat(SubSeq(sent, 1, req.count))
    /\ (req.kind = "get" /\ req.wire = 200) =>
          req.body = <<HeaderFrame \o Concat(FirstTiles(req.count - 1))>>

\* Stream has delivered two tiles that differ, appended in that order
C11_Witness ==
    /\ req.kind = "stream"
    /\ Len(req.body) >= 3
    /\ Payload(req.body[2]) # Payload(req.body[3])
    /\ storage.stream[1].val = Payload(req.body[2])

\* Get has answered 200 with two tiles that differ
C11_WitnessGet ==
    /\ req.kind = "get"
    /\ req.wire = 200
    /\ req.count >= 3
    /\ storage.stream[1].val # storage.stream[2].val

\* a step in which Status reads the header / reads the length of the
\* stream, and the storage answers
StatusReadsHeader == req.pc = "idle" /\ req'.kind = "status" /\ ~req'.busError

StatusReadsLength ==
    /\ req.kind = "status"
    /\ req.pc = "xlen"
    /\ req'.pc = "done"
    /\ ~req'.busError

\* C12: Status answers 202 "pending" when the header key is absent; with
\* a header of ntasks = n and a stream of k entries it answers 200
\* "finished" with progress "n/n" when k = n and 202 "working" with
\* progress "k/n" otherwise; it never reports "finished" while the
\* stream holds fewer than ntasks entries.  (A header that does not
\* parse, and an error of the storage, are answered 500.)
C12_StatusAnswers ==
    /\ Progress(2, 4) = <<50, 47, 52>>
    /\ Progress(4, 4) = <<52, 47, 52>>
    /\ Progress(12, 305) = <<49, 50, 47, 51, 48, 53>>
    /\ [](req.answer = "finished" =>
            /\ req.wire = 200
            /\ Len(storage.stream) >= req.head.Ntasks)
    /\ [][  /\ (StatusReadsHeader /\ storage.header.state # "present") =>
                  /\ req'.pc = "done"
                  /\ req'.wire = 202
                  /\ req'.answer = "pending"
            /\ StatusReadsLength =>
                  LET k == Len(storage.stream)
                      n == req.head.Ntasks
                  IN  /\ storage.header.state # "present"
                          \/ req.head = UnpackProcessHeader(storage.header.doc).ph
                      /\ req'.progress = Progress(k, n)
                      /\ k = n => req'.wire = 200 /\ req'.answer = "finished"
                      /\ k # n => req'.wire = 202 /\ req'.answer = "working"
          ]_vars

\* the scenario of the spec with ntasks = 2: header and one entry,
\* answered 202 "working" with progress "1/2"
C12_Witness ==
    /\ req.kind = "status"
    /\ req.pc = "done"
    /\ req.head.Ntasks = 2
    /\ req.wire = 202
    /\ req.answer = "working"
    /\ req.progress = <<49, 47, 50>>

\* answered 200 "finished" with progress "2/2"
C12_WitnessFinished ==
    /\ req.kind = "status"
    /\ req.wire = 200
    /\ req.answer = "finished"
    /\ req.progress = <<50, 47, 50>>

\* answered 202 "pending"
C12_WitnessPending ==
    /\ req.kind = "status"
    /\ req.wire = 202
    /\ req.answer = "pending"

\* C13: once a Status response for the pid has reported "finished",
\* every later Status response for it reports "finished" as well,
\* whatever happens on the bus in between.
C13_FinishedStaysFinished ==
    (req.toldFinished /\ req.kind = "status" /\ req.pc = "done" /\ ~req.busError)
        => req.answer = "finished"

\* the number a string of decimal digits stands for
RECURSIVE DecimalValue(_)
DecimalValue(ds) ==
    IF ds = <<>> THEN 0
    ELSE 10 * DecimalValue(SubSeq(ds, 1, Len(ds) - 1)) + (ds[Len(ds)] - 48)

\* C14: for every frame with a payload of L bytes that Stream takes from
\* the tile channel it writes the 10-character zero-padded decimal
\* representation of L + 10 followed by the L bytes of the payload, one
\* write per frame, in channel order; a tile of 240 bytes gets the
\* prefix "0000000250".
C14_StreamFraming ==
    /\ Sprintf010d(250) = <<48, 48, 48, 48, 48, 48, 48, 50, 53, 48>>
    /\ req.kind = "stream" =>
          /\ Len(req.body) <= Len(sent)
          /\ \A k \in 1..Len(req.body) :
                LET w == req.body[k]
                    L == Len(sent[k])
                IN  /\ Len(w) = 10 + L
                    /\ \A j \in 1..10 : w[j] \in 48..57
                    /\ DecimalValue(SubSeq(w, 1, 10)) = L + 10
                    /\ SubSeq(w, 11, Len(w)) = sent[k]

\* Stream has written the header frame and a tile of two bytes behind
\* it, as "0000000012" and the two bytes
C14_Witness ==
    /\ req.kind = "stream"
    /\ Len(req.body) >= 2
    /\ req.body[2] = <<48, 48, 48, 48, 48, 48, 48, 48, 49, 50, 8, 8>>

\* C15: a Get request with a valid header answers 202 at once, without
\* a producer and without a read of the stream, when the stream holds
\* fewer than ntasks entries; a 200 response carries the packed
\* ResultHeader followed by the bytes of the ntasks tiles in stream
\* order, without length prefixes, and nothing else.
C15_GetAnswers ==
    req.kind = "get" =>
        /\ req.wire = 202 => coll.pc = "none" /\ sent = <<>> /\ req.body = <<>>
        /\ req.wire = 200 =>
              req.body = <<HeaderFrame \o Concat(FirstTiles(req.head.Ntasks))>>

\* What holds of C15 on the code: 202 is answered exactly when the
\* stream is shorter than ntasks, without a producer; a 200 response
\* begins with the packed ResultHeader and the first ntasks tiles of the
\* stream, so it is never partial.
C15_HoldsOfGet ==
    /\ [](req.kind = "get" =>
            /\ req.wire = 202 =>
                  coll.pc = "none" /\ sent = <<>> /\ req.body = <<>>
            /\ req.wire = 200 =>
                  /\ Len(req.body) = 1
                  /\ req.count - 1 >= req.head.Ntasks
                  /\ StartsWith(req.body[1],
                        HeaderFrame \o Concat(FirstTiles(req.head.Ntasks))))
    /\ [][(req.kind = "get" /\ req.pc = "xlen" /\ req' # req) =>
            (req'.wire = 202 <=> Len(storage.stream) < req.head.Ntasks)]_vars

\* the header key holds a document that cannot be unpacked or whose
\* ntasks is not positive
BadHeaderDoc(doc) ==
    \/ doc \in MalformedDocs
    \/ \E ph \in ProcessHeaders : PackProcessHeader(ph) = doc /\ ph.Ntasks <= 0

\* no producer was started and nothing was sent or written
NothingStarted ==
    coll.pc = "none" /\ sent = <<>> /\ chans = NoChannels /\ req.body = <<>>

\* C16: Stream and Get answer 404 when the key <pid>/header.json is
\* absent and 500 when it holds a document that cannot be unpacked or
\* has ntasks <= 0; in both cases no producer is started and no frame
\* or tile is written to the client.
C16_HeaderErrors ==
    /\ []((req.kind \in {"stream", "get"} /\ req.wire = 404) => NothingStarted)
    /\ []((req.kind \in {"stream", "get"} /\ req.head = NilHead)
            => NothingStarted)
    /\ [][(req.pc = "idle" /\ req'.kind \in {"stream", "get"}) =>
            LET h == storage.header
            IN  /\ h.state # "present" =>
                      /\ req'.wire = 404
                      /\ req'.pc = "done"
                      /\ req'.head = NilHead
                /\ (h.state = "present" /\ BadHeaderDoc(h.doc)) =>
                      /\ req'.wire = 500
                      /\ req'.pc = "done"
                      /\ req'.head = NilHead
                /\ (h.state = "present" /\ ~BadHeaderDoc(h.doc)) =>
                      req'.wire \notin {404, 500}
          ]_vars

\* a Stream request answered 500 for a header with ntasks <= 0
C16_Witness ==
    /\ req.kind = "stream"
    /\ req.wire = 500
    /\ req.head = NilHead
    /\ storage.header.state = "present"
    /\ storage.header.doc \notin MalformedDocs

\* a Get request answered 404
C16_Witness404 == req.kind = "get" /\ req.wire = 404

\* C17: when the producer reports a failure during a Stream request (an
\* "error" entry, an error of the bus read, a tile of the wrong type)
\* the HTTP status the client receives for the request is 500, also
\* when the failure comes after the header frame or tiles were written.
C17_StreamFailureIs500 ==
    (req.kind = "stream" /\ req.pc = "done" /\ coll.err # "none")
        => req.wire = 500

\* What holds of C17 on the code: the failure ends the exchange, and
\* the client receives 500 exactly when nothing had been written, which
\* is when Pack failed; after the header frame the status line 200 is
\* on the wire and stays.
C17_HoldsOfStream ==
    (req.kind = "stream" /\ coll.err # "none") =>
        /\ coll.pc = "done" => req.pc = "done" /\ chans.closed
        /\ req.pc = "done" =>
              /\ req.wire = 500 <=> req.body = <<>>
              /\ req.wire = 500 <=> coll.err = "pack"
              /\ req.wire \in {200, 500}

\* the stream held an entry with the key "error" when Get read its length
ErrorEntrySeen == \E j \in 1..req.xlen : storage.stream[j].key = "error"

\* C18: whenever the stream of the pid contains an entry with the key
\* "error", a Get request for the pid with a valid header ends with 500:
\* never 200, and never 202, whatever the number of entries.
C18_GetWorkerError ==
    (req.kind = "get" /\ req.pc = "done" /\ ErrorEntrySeen) => req.wire = 500

\* What holds of C18 on the code: with an "error" entry in the stream
\* Get never answers 200; it answers 500 once the stream holds ntasks
\* entries or more, and 202 while it is shorter.
C18_HoldsOfGet ==
    (req.kind = "get" /\ req.pc = "done" /\ ErrorEntrySeen) =>
        /\ req.wire \in {202, 500}
        /\ req.wire = 202 <=> req.xlen < req.head.Ntasks

\* C19: every result endpoint honours a per-request deadline: a request
\* whose deadline passes before the exchange completes has its producer
\* aborted and ends with 504 when no output has been sent and with 500
\* when partial output has been sent.
C19_DeadlineHonoured ==
    (req.late /\ req.pc = "done") =>
        /\ req.body = <<>> => req.wire = 504
        /\ req.body # <<>> => req.wire = 500

\* What the code does after the deadline: the producer still waits in
\* XRead for entries, and a request is never answered 504.
C19_HoldsOfDeadline == req.wire # 504

(***************************************************************************)
(* Claims about partition: the argument check                              *)
(***************************************************************************)

\* C20: partition called with task_size < 1 fails with an
\* invalid-argument error for every Fetch, whatever its ids, and emits no
\* task message.
C20_TaskSizeBelowOne ==
    task_size < 1 =>
        /\ xs = <<>>
        /\ output = fetch0
        /\ ppc \in {"idle", "start", "thrown"}
        /\ ppc = "thrown" => perr = "invalid_argument"

\* partition has thrown invalid_argument for task_size 0 on a Fetch
\* with ids
C20_Witness ==
    /\ task_size = 0
    /\ fetch0.ids # <<>>
    /\ ppc = "thrown"
    /\ perr = "invalid_argument"

\* the same for a negative task_size and a Fetch without ids
C20_WitnessNegative ==
    /\ task_size < 0
    /\ fetch0.ids = <<>>
    /\ ppc = "thrown"
    /\ perr = "invalid_argument"

\* C21: schedule never returns an empty list of task messages: for every
\* Fetch the builders produce, one with an empty ids list included, and
\* every task_size >= 1, the number of partitions emitted is
\* ceil(len(ids) / task_size) and is at least 1.
C21_AtLeastOnePartition ==
    (PartitionEnded /\ task_size >= 1) =>
        /\ ppc = "returned"
        /\ Len(xs) >= 1
        /\ Len(fetch0.ids) >= 1 => Len(xs) = CeilDiv(Len(fetch0.ids), task_size)

\* What holds of C21 on the code: a list partition returns is never
\* empty; for a Fetch without ids task_count is 0, which the assertion
\* of task_count excludes, and partition throws.
C21_HoldsOfReturned ==
    /\ ppc = "returned" => Len(xs) >= 1 /\ Len(fetch0.ids) >= 1
    /\ (PartitionEnded /\ task_size >= 1 /\ fetch0.ids = <<>>) =>
          ppc = "thrown" /\ perr = "runtime_error" /\ xs = <<>>

(***************************************************************************)
(* Claims about the slice builder                                          *)
(***************************************************************************)

\* the line number of the task occurs in the dimension of the task
LinenoOccurs ==
    \E k \in 1..Len(manifest.dimensions[slice_task.dim + 1]) :
        manifest.dimensions[slice_task.dim + 1][k] = slice_task.lineno

\* C22: the slice builder fails with a not-found (invalid-argument)
\* error, producing no Fetch, exactly when the lineno of the task does
\* not occur in manifest.dimensions[dim]; when it occurs the build
\* succeeds.
C22_SliceNotFound ==
    bpc \in {"built", "thrown"} =>
        /\ bpc = "thrown" <=> ~LinenoOccurs
        /\ bpc = "thrown" => berr = "invalid_argument" /\ slice_out = NoFetch
        /\ bpc = "built" =>
              /\ berr = "none"
              /\ slice_out.ids # <<>>
              /\ slice_out.shape_cube =
                    [k \in Axes |-> Len(manifest.dimensions[k])]

\* the build has thrown for a line number that occurs in another
\* dimension of the manifest, not in the one asked for
C22_Witness ==
    /\ bpc = "thrown"
    /\ berr = "invalid_argument"
    /\ \E d \in Axes : \E k \in 1..Len(manifest.dimensions[d]) :
          manifest.dimensions[d][k] = slice_task.lineno

\* the build has succeeded for the first line of a dimension
C22_WitnessBuilt ==
    /\ bpc = "built"
    /\ manifest.dimensions[slice_task.dim + 1][1] = slice_task.lineno

\* the samples of a fragment of shape F whose coordinate along dim is k,
\* in row-major order of the two remaining axes
SamplesAt(F, dim, k) ==
    LET a == IF dim = 0 THEN 2 ELSE 1
        b == IF dim = 2 THEN 2 ELSE 3
    IN  [n \in 1..(F[a] * F[b]) |->
           [ax \in Axes |-> IF ax = dim + 1 THEN k
                            ELSE IF ax = a THEN (n - 1) \div F[b]
                                 ELSE (n - 1) % F[b]]]

\* C23: copying by the fragment-level slice_stride(dim) layout from the
\* k-th tile offset yields exactly the samples of the fragment whose
\* coordinate along dim is k, each once, in row-major order of the two
\* remaining axes
C23_FragmentTile ==
    gpc = "extracted" =>
        LET k == to_local(geom, gpoint)[gdim + 1]
        IN  /\ gres.tile = SamplesAt(geom.frag, gdim, k)
            /\ \A m, n \in 1..Len(gres.tile) :
                   gres.tile[m] = gres.tile[n] => m = n
            /\ {gres.tile[m] : m \in 1..Len(gres.tile)}
                 = {p \in [Axes -> 0..(Max3(geom.frag) - 1)] :
                       /\ \A ax \in Axes : p[ax] < geom.frag[ax]
                       /\ p[gdim + 1] = k}

\* a tile behind the first, of more than one chunk with more than one
\* sample each, has been extracted
C23_Witness ==
    /\ gpc = "extracted"
    /\ gdim = 1
    /\ to_local(geom, gpoint)[2] > 0
    /\ geom.frag[1] > 1
    /\ geom.frag[3] > 1

\* the tile at 1 along the innermost axis of the fragment of the tests
C23_WitnessInnermost ==
    /\ gpc = "extracted"
    /\ gdim = 2
    /\ geom.frag = <<3, 5, 7>>
    /\ gpoint = <<1, 1, 1>>
    /\ Len(gres.tile) = 15

\* C25: to_offset(p) of an in-range point is p[0]*S[1]*S[2] + p[1]*S[2] +
\* p[2]; it lies in [0, S[0]*S[1]*S[2]) (offset < S[0]*(S[1]*S[2]) stated as
\* offset \div (S[1]*S[2]) < S[0], which is the same of naturals); no other
\* in-range point has the same offset: the point is recovered from it; on
\* the cube (9, 15, 23) the point (7, 3, 11) is at 2495
C25_RowMajorOffset ==
    gpc = "linearised" =>
        LET S == geom.cube
            o == gres.offset
        IN  /\ o = gpoint[1] * S[2] * S[3] + gpoint[2] * S[3] + gpoint[3]
            /\ o >= 0
            /\ o \div (S[2] * S[3]) < S[1]
            /\ gpoint = << o \div (S[2] * S[3]), (o \div S[3]) % S[2], o % S[3] >>
            /\ \A q \in PointsOf(geom) :
                  to_offset(q, S) = o => q = gpoint
            /\ (S = <<9, 15, 23>> /\ gpoint = <<7, 3, 11>>) => o = 2495

\* a point off every face of the origin, in a cube whose extents differ, has
\* been linearised
C25_Witness ==
    /\ gpc = "linearised"
    /\ \A k \in Axes : gpoint[k] > 0
    /\ geom.cube[1] # geom.cube[2]
    /\ geom.cube[2] # geom.cube[3]

\* the point of the test has been linearised
C25_WitnessTest ==
    /\ gpc = "linearised"
    /\ geom.cube = <<9, 15, 23>>
    /\ gpoint = <<7, 3, 11>>
    /\ gres.offset = 2495

\* the producer has returned without a failure: tiles is closed and no
\* error was sent
CleanCompletion == coll.pc = "done" /\ coll.err = "none"

\* C26: when the producer completes cleanly it has forwarded the header
\* frame followed by exactly ntasks tiles, also when the stream holds more
\* than ntasks entries or one reply of XRead holds entries beyond the
\* ntasks-th
C26_ExactlyNtasksTiles ==
    CleanCompletion =>
        /\ Len(sent) = 1 + coll.head.Ntasks
        /\ sent[1] = PackResultHeader(resultFromProcessHeader(coll.head))
        /\ coll.count = coll.head.Ntasks

\* what the code keeps of C26: on clean completion the header frame and
\* at least ntasks tiles were forwarded, as many as count says, and a tile
\* beyond the ntasks-th came in the reply that held the ntasks-th
C26_HoldsOfProducer ==
    CleanCompletion =>
        /\ Len(sent) = 1 + coll.count
        /\ sent[1] = PackResultHeader(resultFromProcessHeader(coll.head))
        /\ coll.count >= coll.head.Ntasks
        /\ coll.count > coll.head.Ntasks =>
              /\ coll.reply # <<>>
              /\ coll.reply[1].id <= coll.head.Ntasks
              /\ coll.reply[Len(coll.reply)].id = coll.count

\* the producer has completed cleanly on a stream of more than ntasks
\* entries
C26_HoldsOfProducerWitness ==
    /\ CleanCompletion
    /\ Len(storage.stream) > coll.head.Ntasks
    /\ Len(sent) > 1

\* the producer is running: started and not yet returned
ProducerRuns(c) == c.pc \notin {"none", "done"}

\* C27: within one request tiles is closed exactly once, by the producer
\* only, on every exit path of the producer; the consumer never closes it
\* and the producer never sends on it after the close.  tiles is closed
\* exactly while the producer has returned; it becomes closed in the step
\* in which the running producer returns and in no other, every return of
\* the producer is such a step, a step of the handler alone leaves it as
\* it is, and once closed nothing more is sent on it.
C27_ClosedOnceByProducer ==
    /\ [](chans.closed <=> coll.pc = "done")
    /\ [][ /\ (~chans.closed /\ chans'.closed) =>
                (ProducerRuns(coll) /\ coll'.pc = "done")
           /\ (ProducerRuns(coll) /\ coll'.pc = "done") =>
                (~chans.closed /\ chans'.closed)
           /\ coll' = coll => chans'.closed = chans.closed
           /\ (chans.closed /\ chans'.closed) =>
                (sent' = sent /\ Len(chans'.tiles) <= Len(chans.tiles)) ]_vars

\* the producer has returned on a worker error behind a forwarded tile, and
\* tiles is closed
C27_Witness ==
    /\ chans.closed
    /\ coll.err = "worker"
    /\ Len(sent) >= 2

\* the producer has returned on an error of the bus, and tiles is closed
C27_WitnessBus ==
    /\ chans.closed
    /\ coll.err = "bus"

\* the producer has completed cleanly, tiles is closed, and the handler
\* still drains the buffer
C27_WitnessClean ==
    /\ chans.closed
    /\ coll.err = "none"
    /\ chans.tiles # <<>>
    /\ req.pc = "select"

\* the producer has sent on failure: a send on failure is the last thing
\* the producer does, and err is what it sent
FailureSent == coll.pc = "done" /\ coll.err # "none"

\* C28: within one request the producer sends at most one value on the
\* failure channel; after sending it forwards no further tile, and the
\* consumer writes no further frame after receiving it.  The send on
\* failure is the step that takes the producer from "fail" to its return
\* and the handler to its end at once; from the moment the producer has an
\* error to send it sends nothing on tiles; once it has sent, it takes no
\* further step (so sends no second value), and the handler, having
\* received, adds nothing to the response.
C28_FailureOneShot ==
    /\ [](FailureSent => (req.pc = "done" /\ chans.closed))
    /\ [][ /\ (coll.pc = "fail" /\ coll' # coll) =>
                (FailureSent' /\ coll'.err = coll.err /\ req'.pc = "done")
           /\ coll.pc = "fail" => sent' = sent
           /\ (FailureSent /\ FailureSent') =>
                /\ coll' = coll
                /\ sent' = sent
                /\ req'.body = req.body
                /\ req'.result = req.result
                /\ req'.wire = req.wire ]_vars

\* Stream has ended on a worker error behind a delivered tile, with a
\* tile entry behind the error left in the stream
C28_Witness ==
    /\ FailureSent
    /\ coll.err = "worker"
    /\ req.kind = "stream"
    /\ Len(req.body) = 2
    /\ Len(storage.stream) = 3
    /\ storage.stream[3].key = "tile"

\* Get has ended on a failure with tiles still in the buffer
C28_WitnessGet ==
    /\ FailureSent
    /\ req.kind = "get"
    /\ req.wire = 500
    /\ chans.tiles # <<>>

\* the scheduling of the two goroutines of an exchange: the producer and
\* the handler each take a step they can take.  Nothing obliges a worker
\* to append, the storage to fail, or a client to come or to go.
ProducerSteps ==
    /\ CollectPack \/ CollectSend \/ CollectReturn \/ CollectXRead
          \/ CollectMessage
    /\ UNCHANGED <<partVars, geomVars, curtVars, keyVars, gateVars, sliceVars,
                   concVars>>

HandlerSteps ==
    /\ GetXLen \/ ReceiveBuffered \/ ReceiveDirect \/ ReceiveClosed
          \/ ReceiveFailure
    /\ UNCHANGED <<partVars, geomVars, curtVars, keyVars, gateVars, sliceVars,
                   concVars>>

SpecBrokerFair ==
    /\ InitBroker
    /\ [][NextBroker]_vars
    /\ WF_vars(ProducerSteps)
    /\ WF_vars(HandlerSteps)

\* the producer is suspended in XRead: no entry behind its cursor
SuspendedInXRead ==
    /\ coll.pc = "loop"
    /\ coll.count < coll.head.Ntasks
    /\ Len(storage.stream) <= coll.streamCursor

\* the producer stands at a send on tiles
SendingTile == coll.pc = "send"

\* C29: if the context of the request is cancelled while the producer is
\* suspended in XRead or blocked sending a tile, the producer eventually
\* returns and tiles is closed
C29_CancelledProducerReturns ==
    (req.cancelled /\ (SuspendedInXRead \/ SendingTile)) ~> chans.closed

\* what the code keeps of C29: a producer that stands at a send on tiles
\* gets past it, cancelled or not, for the handler keeps receiving
C29_HoldsOfSend == SendingTile ~> ~SendingTile

\* the context is cancelled and the producer stands at the send of a tile
C29_HoldsOfSendWitness ==
    /\ req.cancelled
    /\ SendingTile
    /\ coll.at > 0

\* the fragment columns of the input pairs
TouchedColumns ==
    {<<ColumnId(cgeom, ctask, k)[1], ColumnId(cgeom, ctask, k)[2]>> :
        k \in 1..Len(ctask.dim0s)}

\* C30: after the curtain builder has run, the set of ids is exactly
\* { (fx, fy, z) : (fx, fy) the fragment column of some input pair,
\* 0 <= z < fragment_count(axis 2) }: every touched column has its full
\* vertical stack of zfrags fragments, stored contiguously with z
\* ascending, and no fragment of an untouched column is present
C30_FullColumns ==
    cpc \in {"insert", "built"} =>
        LET zfrags == fragment_count(cgeom, 2)
        IN  /\ {cids[j].id : j \in 1..Len(cids)}
                 = {<<col[1], col[2], z>> :
                       col \in TouchedColumns, z \in 0..(zfrags - 1)}
            /\ Len(cids) = Cardinality(TouchedColumns) * zfrags
            /\ \A j \in 1..Len(cids) :
                  LET z == (j - 1) % zfrags
                  IN  /\ cids[j].id[3] = z
                      /\ cids[j].id[1] = cids[j - z].id[1]
                      /\ cids[j].id[2] = cids[j - z].id[2]

\* a curtain has been built that touches two columns and leaves one
\* untouched, through fragments stacked at least two high
C30_Witness ==
    /\ cpc = "built"
    /\ Cardinality(TouchedColumns) = 2
    /\ fragment_count(cgeom, 0) * fragment_count(cgeom, 1) > 2
    /\ fragment_count(cgeom, 2) >= 2

\* a curtain has been built from no pair at all
C30_WitnessEmpty ==
    /\ cpc = "built"
    /\ ctask.dim0s = <<>>
    /\ cids = <<>>

\* the local pairs (x mod F[0], y mod F[1]) of those of the first n input
\* pairs whose fragment column is col, in input order, one per occurrence
LocalPairsOf(col, n) ==
    LET InColumn(k) == /\ ColumnId(cgeom, ctask, k)[1] = col[1]
                       /\ ColumnId(cgeom, ctask, k)[2] = col[2]
        picked == SelectSeq([k \in 1..n |-> k], InColumn)
    IN  [m \in 1..Len(picked) |->
            << ctask.dim0s[picked[m]] % cgeom.frag[1],
               ctask.dim1s[picked[m]] % cgeom.frag[2] >>]

\* C31: after the curtain builder has run, the coordinates of every entry
\* of ids are exactly the local pairs of the input pairs of the entry's
\* column, in input order, one per occurrence; all zfrags entries of a
\* column hold the same list and no entry holds a pair of another column.
\* (During the insertion pass the same holds of the pairs handled so far.)
C31_ColumnCoordinates ==
    /\ cpc = "insert" =>
          \A j \in 1..Len(cids) :
             cids[j].coordinates = LocalPairsOf(cids[j].id, ci)
    /\ cpc = "built" =>
          /\ \A j \in 1..Len(cids) :
                cids[j].coordinates = LocalPairsOf(cids[j].id, Len(ctask.dim0s))
          /\ \A j, k \in 1..Len(cids) :
                (cids[j].id[1] = cids[k].id[1] /\ cids[j].id[2] = cids[k].id[2])
                    => cids[j].coordinates = cids[k].coordinates

\* a curtain has been built from three pairs, two of them in one column
\* at different local positions with a pair of another column between
\* them, through fragments stacked at least two high
C31_Witness ==
    /\ cpc = "built"
    /\ Len(ctask.dim0s) = 3
    /\ ColumnId(cgeom, ctask, 1) = ColumnId(cgeom, ctask, 3)
    /\ ColumnId(cgeom, ctask, 1) # ColumnId(cgeom, ctask, 2)
    /\ <<ctask.dim0s[1], ctask.dim1s[1]>> # <<ctask.dim0s[3], ctask.dim1s[3]>>
    /\ fragment_count(cgeom, 2) >= 2

\* a curtain has been built in which a pair occurs twice
C31_WitnessRepeated ==
    /\ cpc = "built"
    /\ Len(ctask.dim0s) >= 2
    /\ ctask.dim0s[1] = ctask.dim0s[2]
    /\ ctask.dim1s[1] = ctask.dim1s[2]
    /\ Len(cids[1].coordinates) >= 2

\* the position (from 0) at which the lineno of the task stands in
\* manifest.dimensions[dim]: the first that holds it
PinOfLineno ==
    LET index == manifest.dimensions[slice_task.dim + 1]
    IN  (CHOOSE k \in 1..Len(index) :
            /\ index[k] = slice_task.lineno
            /\ \A j \in 1..(k - 1) : index[j] # slice_task.lineno) - 1

\* C32: for a slice query whose lineno stands at position pin in
\* manifest.dimensions[dim], the Fetch built has lineno = pin mod
\* FragmentShape[dim] and ids = geometry.slice(dim, pin) in the same
\* order, so that id[dim] * FragmentShape[dim] + lineno = pin for every id
\* of the Fetch
C32_LocalPin ==
    bpc = "built" =>
        LET d   == slice_task.dim + 1
            F   == slice_task.shape
            pin == PinOfLineno
        IN  /\ slice_out.lineno = pin % F[d]
            /\ slice_out.lineno \in 0..(F[d] - 1)
            /\ slice_out.ids =
                  slice(geometry(manifest.dimensions, F), slice_task.dim, pin)
            /\ \A j \in 1..Len(slice_out.ids) :
                  slice_out.ids[j][d] * F[d] + slice_out.lineno = pin

\* a slice has been built for a line behind the first fragment along dim,
\* off the fragment's first plane
C32_Witness ==
    /\ bpc = "built"
    /\ PinOfLineno >= slice_task.shape[slice_task.dim + 1]
    /\ slice_out.lineno > 0
    /\ slice_out.lineno # slice_task.lineno
    /\ Len(slice_out.ids) >= 2

\* C33: partition changes only the ids field between chunks: every packed
\* chunk carries all other fields of the Fetch with the values of the Fetch
\* the builder returned.  (ctx stands for those fields; a chunk is the
\* packed Fetch of the builder with the ids of the chunk in place of its
\* own.)
C33_OnlyIdsChange ==
    /\ output.ctx = fetch0.ctx
    /\ \A j \in 1..Len(xs) :
          /\ UnpackCtx(xs[j]) = fetch0.ctx
          /\ xs[j] = Pack([fetch0 EXCEPT !.ids = UnpackIds(xs[j])])

\* a curtain Fetch has been partitioned into chunks of different ids
C33_Witness ==
    /\ ppc = "returned"
    /\ fetch0.ctx = "curtain"
    /\ Len(xs) >= 2
    /\ UnpackIds(xs[1]) # UnpackIds(xs[2])
    /\ UnpackIds(xs[1]) # fetch0.ids

\* task_count has been called: partition is past plan.cpp:123
TaskCountCalled == ppc \in {"loop", "returned"} \/ perr = "runtime_error"

\* C35: in 32-bit signed arithmetic task_count(jobs, task_size) equals
\* ceil(jobs / task_size) for every jobs >= 1 and every task_size in
\* 1..2^31-1 (the sum jobs + (task_size - 1) does not wrap), so a task_size
\* larger than the number of ids yields exactly one chunk
C35_TaskCountIsCeil ==
    (TaskCountCalled /\ Len(fetch0.ids) >= 1 /\ task_size >= 1) =>
        /\ perr = "none"
        /\ ntasks = CeilDiv(Len(fetch0.ids), task_size)
        /\ (ppc = "returned" /\ task_size > Len(fetch0.ids)) => Len(xs) = 1

\* what the code keeps of C35: where jobs + (task_size - 1) stays within
\* IntMax task_count is the ceiling, and a task_size above the number of
\* ids gives one chunk
C35_HoldsWithinInt ==
    (TaskCountCalled /\ Len(fetch0.ids) >= 1 /\ task_size >= 1
        /\ task_size - 1 <= IntMax - Len(fetch0.ids)) =>
        /\ perr = "none"
        /\ ntasks = CeilDiv(Len(fetch0.ids), task_size)
        /\ (ppc = "returned" /\ task_size > Len(fetch0.ids)) => Len(xs) = 1

\* one id has been partitioned with the largest task_size into one chunk
C35_HoldsWithinIntWitness ==
    /\ ppc = "returned"
    /\ Len(fetch0.ids) = 1
    /\ task_size = IntMax
    /\ Len(xs) = 1

(***************************************************************************)
(* Claims about several requests at a time                                 *)
(***************************************************************************)
\* the header frame of the pid
ConcHeaderFrame == PackResultHeader(resultFromProcessHeader(chead))

\* the header frame and the payloads of the first n entries of the stream
FramesFromFirst(n) ==
    <<ConcHeaderFrame>> \o [j \in 1..n |-> cstream[j].val]

\* C34: requests are independent: for concurrent Stream, Get and Status
\* requests on one pid, interleaved with the appends of the workers, each
\* Stream and Get request receives the header followed by the tiles from
\* the first entry of the stream on, in stream order; a request never
\* consumes, skips or alters entries seen by another request.  What every
\* request has received is the header frame and the tiles of the first
\* entries, none left out; a request that completed has ntasks tiles or
\* more; Status tells the length it read; no step shortens or rewrites
\* the stream, a step of a request leaves the stream and every other
\* request as they are.
C34_RequestsIndependent ==
    /\ [](\A k \in DOMAIN reqs :
            LET h == reqs[k].hand
                p == reqs[k].prod
            IN  /\ h.kind = "stream" =>
                      /\ Len(h.body) <= Len(cstream) + 1
                      /\ h.body = [j \in 1..Len(h.body) |->
                                     StreamFrame(FramesFromFirst(Len(h.body) - 1)[j])]
                      /\ (h.pc = "done" /\ p.err = "none") =>
                            Len(h.body) >= 1 + chead.Ntasks
                /\ h.kind = "get" =>
                      /\ h.count <= Len(cstream) + 1
                      /\ h.count > 0 =>
                            h.result = Concat(FramesFromFirst(h.count - 1))
                      /\ h.wire = 200 =>
                            /\ h.body = <<h.result>>
                            /\ h.count >= 1 + chead.Ntasks
                      /\ h.wire = 202 => h.xlen < chead.Ntasks
                /\ (h.kind = "status" /\ h.answer = "finished") =>
                      (h.xlen = chead.Ntasks /\ Len(cstream) >= h.xlen))
    /\ [][ /\ Len(cstream') >= Len(cstream)
           /\ SubSeq(cstream', 1, Len(cstream)) = cstream
           /\ reqs' # reqs => cstream' = cstream
           /\ \A j, k \in DOMAIN reqs :
                 (j # k /\ reqs'[k] # reqs[k]) => reqs'[j] = reqs[j] ]_vars

\* a Stream and a Get request on the pid, both served the header and the
\* same two tiles, Get having come when Stream had begun
C34_Witness ==
    /\ reqs # <<>>
    /\ reqs[1].hand.kind = "stream"
    /\ Len(reqs[1].hand.body) = 3
    /\ reqs[2].hand.kind = "get"
    /\ reqs[2].hand.wire = 200
    /\ reqs[2].hand.count = 3

\* two Stream requests at different places of the stream, and a third
\* entry neither has read
C34_WitnessApart ==
    /\ reqs # <<>>
    /\ reqs[1].hand.kind = "stream"
    /\ reqs[2].hand.kind = "stream"
    /\ reqs[1].prod.streamCursor = 2
    /\ reqs[2].prod.streamCursor = 0
    /\ reqs[2].prod.pc = "loop"
    /\ Len(reqs[1].hand.body) = 3
    /\ Len(reqs[2].hand.body) = 1
    /\ Len(cstream) = 3

\* the workers have appended ntasks entries or an error entry
WorkersDelivered ==
    \/ Len(storage.stream) >= req.head.Ntasks
    \/ \E j \in 1..Len(storage.stream) : storage.stream[j].key = "error"

\* C36: under fair scheduling of producer and consumer, once the workers
\* have appended ntasks tile entries or an error entry to the stream of the
\* pid, a Stream request on it terminates, with all frames written and
\* tiles closed or with the failure received; producer and consumer never
\* deadlock on the unbuffered channels
C36_StreamTerminates ==
    /\ (req.kind = "stream" /\ req.pc = "select" /\ WorkersDelivered)
          ~> (req.kind = "stream" /\ req.pc = "done")
    /\ []((req.kind = "stream" /\ req.pc = "done" /\ req.wire # 404
              /\ coll.pc # "none") =>
            /\ chans.closed
            /\ coll.pc = "done"
            /\ coll.err = "none" =>
                  /\ Len(req.body) = Len(sent)
                  /\ Len(sent) >= 1 + req.head.Ntasks)

\* a Stream request that began on an empty stream has ended with the
\* header frame and two tiles written
C36_Witness ==
    /\ req.kind = "stream"
    /\ req.pc = "done"
    /\ coll.err = "none"
    /\ req.head.Ntasks = 2
    /\ Len(req.body) = 3
    /\ coll.reply # <<>>
    /\ coll.reply[1].id = 2

\* a Stream request has ended on the failure of a worker behind a tile
C36_WitnessFailure ==
    /\ req.kind = "stream"
    /\ req.pc = "done"
    /\ coll.err = "worker"
    /\ Len(req.body) = 2

\* request j is a Status and request k a Get, both answered on the stream
\* as it is now: each read the length the stream still has (the stream
\* only grows, so it was the same at every read of the two), and the
\* storage failed neither
SameState(j, k) ==
    /\ reqs[j].hand.kind = "status"
    /\ reqs[k].hand.kind = "get"
    /\ reqs[j].hand.pc = "done"
    /\ reqs[k].hand.pc = "done"
    /\ reqs[j].hand.xlen = Len(cstream)
    /\ reqs[k].hand.xlen = Len(cstream)
    /\ reqs[k].prod.err \notin {"pack", "bus"}

\* Get answered 200 with the header and the ntasks tiles
GetComplete(k) ==
    /\ reqs[k].hand.wire = 200
    /\ reqs[k].hand.body = <<Concat(FramesFromFirst(chead.Ntasks))>>

\* C37: Status and Get agree on completion: on a state of the bus with a
\* valid header Status reports "finished" if and only if a Get on the same
\* unchanged state returns 200 with the complete result (header plus
\* ntasks tiles); Status never reports "finished" where Get answers 500
\* or 202
C37_StatusGetAgree ==
    \A j, k \in DOMAIN reqs :
        SameState(j, k) =>
            (reqs[j].hand.answer = "finished" <=> GetComplete(k))

\* what the code keeps of C37: where Status reports "finished" Get does
\* not answer 202, and answers the complete result if it answers 200;
\* where Get answers 202 Status reports "working"
C37_HoldsOfStatusGet ==
    \A j, k \in DOMAIN reqs :
        SameState(j, k) =>
            /\ reqs[j].hand.answer = "finished" =>
                  /\ reqs[k].hand.wire \in {200, 500}
                  /\ reqs[k].hand.wire = 200 => GetComplete(k)
            /\ reqs[k].hand.wire = 202 => reqs[j].hand.answer = "working"

\* Status has reported "finished" and Get answered the complete result on
\* the same stream of two tiles
C37_HoldsOfStatusGetWitness ==
    /\ reqs # <<>>
    /\ SameState(1, 2)
    /\ chead.Ntasks = 2
    /\ reqs[1].hand.answer = "finished"
    /\ GetComplete(2)

====
